---- MODULE Spec2Model ----
(***************************************************************************)
(* ModPy: the generator registry, the Mod aggregate, the element model and *)
(* the action capture stack, as a state machine.                           *)
(*                                                                         *)
(* Python strings that the program transforms (element names, generator    *)
(* keys) are sequences of one-character strings; strings the program only  *)
(* stores and compares (event names, commands, identity fields) are TLA+   *)
(* strings.                                                                *)
(***************************************************************************)
EXTENDS Integers, Sequences, FiniteSets, TLC

VARIABLES
    _GENERATORS,  \* registry.py: key -> generator instance
    mods,         \* the Mod objects constructed so far, by object id
    elems,        \* the element objects constructed so far, by object id
    frames,       \* the decorator calls whose handler is running, outermost first;
                  \* saved (history): the owner's capture stack when the call began
    declared,     \* history: the constructor arguments of elems[i]
    files,        \* the file system: path -> contents
    ret           \* the last call: operation, exception raised, value returned

vars == <<_GENERATORS, mods, elems, frames, declared, files, ret>>

-----------------------------------------------------------------------------
(* Bounds of the model.                                                    *)

\* The objects one run may hold at a time: Mod objects, elements, entries of
\* element lists, action lists (recorded or being recorded) and actions.
MaxSize == 5

\* A run on the Fabric generator constructs at most MaxDeclared elements.
MaxDeclared == 2

-----------------------------------------------------------------------------
(* Characters and strings.                                                 *)

\* Python None where a string is expected (no string has this shape:
\* every element of a string is a single character).
None == <<"None">>

UpperLetters == <<"A","B","C","D","E","F","G","H","I","J","K","L","M",
                  "N","O","P","Q","R","S","T","U","V","W","X","Y","Z">>
LowerLetters == <<"a","b","c","d","e","f","g","h","i","j","k","l","m",
                  "n","o","p","q","r","s","t","u","v","w","x","y","z">>
Digits == <<"0","1","2","3","4","5","6","7","8","9">>

Range(s) == {s[i] : i \in 1..Len(s)}

IndexOf(s, c) == CHOOSE i \in 1..Len(s) : s[i] = c

\* str.lower() on one character
LowerChar(c) ==
    IF c \in Range(UpperLetters) THEN LowerLetters[IndexOf(UpperLetters, c)] ELSE c

Lower(s) == [i \in 1..Len(s) |-> LowerChar(s[i])]

\* Code points, for the order sorted() puts strings in.
Ascii == <<" ", "!", "-", ".", "/">> \o Digits \o <<":">> \o UpperLetters
             \o <<"_">> \o LowerLetters

Ord(c) == IndexOf(Ascii, c)

RECURSIVE StrLess(_, _)
StrLess(a, b) ==
    IF b = <<>> THEN FALSE
    ELSE IF a = <<>> THEN TRUE
    ELSE IF a[1] = b[1] THEN StrLess(Tail(a), Tail(b))
    ELSE Ord(a[1]) < Ord(b[1])

\* bool(s) for an optional string: None and "" are falsy
Truthy(s) == s # None /\ s # <<>>

\* Python's `a or b` on optional strings
OrElse(a, b) == IF Truthy(a) THEN a ELSE b

Whitespace == {" ", "\t", "\n", "\r"}

RECURSIVE LStrip(_, _)
LStrip(s, chars) ==
    IF s # <<>> /\ s[1] \in chars THEN LStrip(Tail(s), chars) ELSE s

RECURSIVE RStrip(_, _)
RStrip(s, chars) ==
    IF s # <<>> /\ s[Len(s)] \in chars
    THEN RStrip(SubSeq(s, 1, Len(s) - 1), chars)
    ELSE s

\* str.strip(chars)
Strip(s, chars) == RStrip(LStrip(s, chars), chars)

\* The statements of a function run in the order they are written, each
\* complete before the next starts: the values they compute, the last of
\* which is the result
Last(statements) == statements[Len(statements)]

\* two statements in order
Then(first, second) == Last(<<first, second>>)

\* a statement and the statement that uses what it left
Apply(first, Next_(_)) == <<first, Next_(first)>>[2]

\* str.replace(old, new) for single characters
Replace(s, old, new) == [i \in 1..Len(s) |-> IF s[i] = old THEN new ELSE s[i]]

\* re.sub(r"[<class>]", rep, s): every character of the class becomes rep,
\* runs are not joined
SubRuns_each(s, class, rep) == [i \in 1..Len(s) |-> IF s[i] \in class THEN rep ELSE s[i]]

\* re.sub(r"[<class>]+", rep, s) for a single character rep: every maximal
\* run of characters of the class becomes rep.  Each position gives what it
\* leaves in the result: itself, rep where a run starts, nothing inside a run
SubRuns(s, class, rep) ==
    LET left(i) == IF s[i] \notin class THEN <<s[i]>>
                   ELSE IF i = 1 \/ s[i - 1] \notin class THEN <<rep>> ELSE <<>>
        kept == SelectSeq([i \in 1..Len(s) |-> left(i)], LAMBDA p : p # <<>>)
    IN  [k \in 1..Len(kept) |-> kept[k][1]]

\* re.split(r"[<class>]+", s), empty pieces dropped: the maximal runs of
\* characters outside the class, each from its first position to its last
SplitRuns(s, class) ==
    LET starts(i) == s[i] \notin class /\ (i = 1 \/ s[i - 1] \in class)
        ends(j) == s[j] \notin class /\ (j = Len(s) \/ s[j + 1] \in class)
        first == SelectSeq([i \in 1..Len(s) |-> i], starts)
        last == SelectSeq([j \in 1..Len(s) |-> j], ends)
    IN  [k \in 1..Len(first) |-> SubSeq(s, first[k], last[k])]

\* the characters [a-z0-9/._-]
IdPathChars == Range(LowerLetters) \cup Range(Digits) \cup {"/", ".", "_", "-"}

AllChars == Range(Ascii) \cup Whitespace

\* `normalized or fallback`
OrFallback(normalized, fallback) == IF normalized # <<>> THEN normalized ELSE fallback

\* the two re.sub of _normalize_id_path and the strip, on the text raw
Normalized(raw, fallback) ==
    Then(raw, OrFallback(Strip(SubRuns(SubRuns(raw, AllChars \ IdPathChars, "_"),
                                       {"_"}, "_"),
                               {"_", ".", "/", "-"}),
                         fallback))

_normalize_id_path(value, fallback) ==
    Then(value, Normalized(Replace(Strip(Lower(IF Truthy(value) THEN value ELSE <<>>),
                                         Whitespace),
                                   " ", "_"),
                           fallback))

\* str.capitalize()
Capitalize(w) ==
    [i \in 1..Len(w) |->
        IF i = 1 /\ w[i] \in Range(LowerLetters)
        THEN UpperLetters[IndexOf(LowerLetters, w[i])]
        ELSE IF i > 1 THEN LowerChar(w[i]) ELSE w[i]]

RECURSIVE JoinWords(_)
JoinWords(ws) ==
    IF ws = <<>> THEN <<>>
    ELSE IF Len(ws) = 1 THEN Capitalize(ws[1])
    ELSE Capitalize(ws[1]) \o <<" ">> \o JoinWords(Tail(ws))

_display_name(identifier) ==
    LET words == SplitRuns(identifier, {"_", "/", ".", "-"})
    IN  IF words # <<>> THEN JoinWords(words) ELSE <<"G","e","n","e","r","a","t","e","d">>

-----------------------------------------------------------------------------
(* Element classes.                                                        *)

\* BaseElement.KIND and its overrides
KIND(cls) ==
    CASE
          cls = "FabricTab" -> <<"t","a","b">>
       [] cls = "FabricItem" -> <<"i","t","e","m">>
       [] cls = "FabricBlock" -> <<"b","l","o","c","k">>
       [] cls = "FabricRecipe" -> <<"r","e","c","i","p","e">>
       [] cls = "FabricTag" -> <<"t","a","g">>
       [] cls = "FabricJavaSource" -> <<"j","a","v","a","_","s","o","u","r","c","e">>
       [] cls = "FabricCommand" -> <<"c","o","m","m","a","n","d">>
       [] cls = "FabricEntity" -> <<"e","n","t","i","t","y">>
       [] cls = "FabricBiome" -> <<"b","i","o","m","e">>
       [] cls = "FabricWorldgen" -> <<"w","o","r","l","d","g","e","n">>
       [] cls = "Spell" -> <<"s","p","e","l","l">>
       [] OTHER -> <<"e","l","e","m","e","n","t">>

\* BaseElement.EVENT_NAMES and its overrides
EVENT_NAMES(cls) ==
    CASE
          cls = "FabricTab" -> <<>>
       [] cls = "FabricItem" -> <<"Drop", "Use">>
       [] cls = "FabricBlock" -> <<"Break", "Place">>
       [] cls = "FabricRecipe" -> <<>>
       [] cls = "FabricTag" -> <<>>
       [] cls = "FabricJavaSource" -> <<>>
       [] cls = "FabricCommand" -> <<"Execute">>
       [] cls = "FabricEntity" -> <<"Spawn", "Death">>
       [] cls = "FabricBiome" -> <<>>
       [] cls = "FabricWorldgen" -> <<>>
       [] cls = "Spell" -> <<"Cast">>
       [] OTHER -> <<>>

\* defaultdict(list) before any key is touched
NoEvents == [n \in {} |-> <<>>]

\* BaseElement.__init__ normalizing the name as the Fabric classes do
BaseElement_normalizes(mod, cls, name, properties) ==
    [mod |-> mod, cls |-> cls, name |-> _normalize_id_path(name, KIND(cls)),
     properties |-> properties, events |-> NoEvents]

\* BaseElement.__init__: the name as given, or KIND when it is empty; the
\* event table is a defaultdict with no key yet
BaseElement(mod, cls, name, properties) ==
    [mod |-> mod, cls |-> cls, name |-> OrElse(name, KIND(cls)),
     properties |-> properties, events |-> NoEvents]

\* tests/test_custom.py: Spell.__init__
Spell(mod, mana_cost, name) ==
    BaseElement(mod, "Spell", name, [mana_cost |-> mana_cost])

\* _RARITIES.get(rarity.lower(), "COMMON")
_RARITIES_get(rarity) ==
    CASE rarity \in {"uncommon", "Uncommon", "UNCOMMON"} -> "UNCOMMON"
      [] rarity \in {"rare", "Rare", "RARE"} -> "RARE"
      [] rarity \in {"epic", "Epic", "EPIC"} -> "EPIC"
      [] OTHER -> "COMMON"

\* An optional number: <<>> is None, <<n>> is the number n.
NoInt == <<>>
Max(a, b) == IF a > b THEN a ELSE b

\* the defaults of FabricItem.__init__'s keyword arguments
FabricItemDefaults ==
    [identifier |-> None, name |-> None, texture |-> None, model |-> None,
     creative_tab |-> None, max_count |-> 64, durability |-> NoInt,
     fireproof |-> FALSE, rarity |-> "common"]

\* FabricItem.__init__: every argument is normalized or clamped, none refused
FabricItem__init__(mod, kw) ==
    LET item_id == _normalize_id_path(OrElse(kw.identifier, kw.name), <<"i","t","e","m">>)
    IN  [exc |-> "none",
         value |-> BaseElement(mod, "FabricItem", item_id,
             [identifier |-> item_id,
              display_name |-> OrElse(kw.name, _display_name(item_id)),
              texture |-> kw.texture, model |-> kw.model,
              creative_tab |-> IF Truthy(kw.creative_tab)
                               THEN _normalize_id_path(kw.creative_tab, <<>>)
                               ELSE None,
              max_count |-> Max(1, kw.max_count),
              durability |-> IF kw.durability # NoInt
                             THEN <<Max(1, kw.durability[1])>> ELSE NoInt,
              fireproof |-> kw.fireproof, rarity |-> _RARITIES_get(kw.rarity)])]

\* FabricItem.__init__ with its remaining keyword arguments at their defaults
FabricItem(mod, identifier, name) ==
    FabricItem__init__(mod, [FabricItemDefaults EXCEPT !.identifier = identifier,
                                                       !.name = name]).value

\* BaseElement.to_dict
to_dict(e) ==
    [kind |-> KIND(e.cls), name |-> e.name, properties |-> e.properties,
     events |-> e.events]

-----------------------------------------------------------------------------
(* Generators and the registry.                                            *)

FabricKey == <<"m","i","n","e","c","r","a","f","t","-","f","a","b","r","i","c","-","1",".","2","1",".","1","1">>
DemoKey == <<"d","e","m","o","-","n","o","-","i","t","e","m","-","1",".","0">>
MissingKey == <<"d","o","e","s","-","n","o","t","-","e","x","i","s","t">>

\* The generator objects of a run: the built-in instance made at import, two
\* instances of the test generator (same key) and a bare GeneratorBase.
Fabric1 == [cls |-> "Fabric12111Generator", id |-> 1]
Demo1 == [cls |-> "NoItemGenerator", id |-> 1]
Demo2 == [cls |-> "NoItemGenerator", id |-> 2]
Base1 == [cls |-> "GeneratorBase", id |-> 1]

GeneratorObjects == {Fabric1, Demo1, Demo2, Base1}

\* GeneratorBase.key and its overrides
key(generator) ==
    CASE generator.cls = "Fabric12111Generator" -> FabricKey
      [] generator.cls = "NoItemGenerator" -> DemoKey
      [] OTHER -> <<>>

\* GeneratorBase.element_types and its overrides: category name -> class
element_types(generator) ==
    CASE generator.cls = "Fabric12111Generator" ->
             [n \in {"Tab", "Item", "Block", "Recipe", "Tag", "JavaSource",
                     "Command", "Entity", "Biome", "Worldgen"} |-> "Fabric" \o n]
      [] generator.cls = "NoItemGenerator" -> [n \in {"Spell"} |-> "Spell"]
      [] OTHER -> [n \in {} |-> ""]

NoValue == "None"

Raise(exc) == [exc |-> exc, value |-> NoValue]
Return(value) == [exc |-> "none", value |-> value]

\* register_generator without the duplicate check of line 15
register_generator_no_duplicate_check(generators, generator, replace) ==
    LET k == key(generator)
    IN  IF k = <<>> THEN [exc |-> "ValueError", generators |-> generators]
        ELSE [exc |-> "none",
              generators |-> [x \in DOMAIN generators \cup {k} |->
                                 IF x = k THEN generator ELSE generators[x]]]

\* register_generator storing with setdefault: the first instance stays
register_generator_keeps_first(generators, generator, replace) ==
    LET k == key(generator)
    IN  IF k = <<>> THEN [exc |-> "ValueError", generators |-> generators]
        ELSE IF k \in DOMAIN generators /\ ~replace
             THEN [exc |-> "KeyError", generators |-> generators]
             ELSE [exc |-> "none",
                   generators |-> [x \in DOMAIN generators \cup {k} |->
                                      IF x \in DOMAIN generators THEN generators[x]
                                      ELSE generator]]

\* register_generator checking the key only when replace is false
register_generator_replace_unchecked(generators, generator, replace) ==
    LET k == key(generator)
    IN  IF k = <<>> /\ ~replace THEN [exc |-> "ValueError", generators |-> generators]
        ELSE IF k \in DOMAIN generators /\ ~replace
             THEN [exc |-> "KeyError", generators |-> generators]
             ELSE [exc |-> "none",
                   generators |-> [x \in DOMAIN generators \cup {k} |->
                                      IF x = k THEN generator ELSE generators[x]]]

\* register_generator: the outcome and the registry afterwards
register_generator(generators, generator, replace) ==
    LET k == key(generator)
    IN  IF k = <<>> THEN [exc |-> "ValueError", generators |-> generators]
        ELSE IF k \in DOMAIN generators /\ ~replace
             THEN [exc |-> "KeyError", generators |-> generators]
             ELSE [exc |-> "none",
                   generators |-> [x \in DOMAIN generators \cup {k} |->
                                      IF x = k THEN generator ELSE generators[x]]]

get_generator(generators, k) ==
    IF k \in DOMAIN generators THEN Return(generators[k]) ELSE Raise("KeyError")

\* sorted(): ascending by code point
RECURSIVE Sorted(_)
Sorted(S) ==
    IF S = {} THEN <<>>
    ELSE LET least == CHOOSE x \in S : \A y \in S \ {x} : StrLess(x, y)
         IN  <<least>> \o Sorted(S \ {least})

\* list_generators with sorted(..., reverse=True)
list_generators_descending(generators) ==
    LET keys == Sorted(DOMAIN generators)
    IN  [i \in 1..Len(keys) |-> keys[Len(keys) + 1 - i]]

list_generators(generators) == Sorted(DOMAIN generators)

-----------------------------------------------------------------------------
(* The Mod aggregate.                                                      *)

\* Mod.__init__ falling back to the built-in generator for an unknown key
Mod__init___falls_back(generators, author, generator, mod_id, name, version) ==
    LET found == get_generator(generators, generator)
    IN  Return([author |-> author, mod_id |-> mod_id, name |-> name,
                version |-> version, generator |-> generator,
                elements |-> <<>>, startup_actions |-> <<>>,
                _action_capture_stack |-> <<>>,
                _generator |-> IF found.exc = "none" THEN found.value
                               ELSE generators[FabricKey]])

\* Mod.__init__ binding the first instance of the class registered under the
\* key instead of the instance registered now
Mod__init___first_instance(generators, author, generator, mod_id, name, version) ==
    LET found == get_generator(generators, generator)
    IN  IF found.exc # "none" THEN Raise(found.exc)
        ELSE Return([author |-> author, mod_id |-> mod_id, name |-> name,
                     version |-> version, generator |-> generator,
                     elements |-> <<>>, startup_actions |-> <<>>,
                     _action_capture_stack |-> <<>>,
                     _generator |-> [found.value EXCEPT !.id = 1]])

\* Mod.__init__: the fields are set, then the key is looked up; when the
\* lookup raises, the constructor raises and no Mod is returned
Mod__init__(generators, author, generator, mod_id, name, version) ==
    LET found == get_generator(generators, generator)
    IN  IF found.exc # "none" THEN Raise(found.exc)
        ELSE Return([author |-> author, mod_id |-> mod_id, name |-> name,
                     version |-> version, generator |-> generator,
                     elements |-> <<>>, startup_actions |-> <<>>,
                     _action_capture_stack |-> <<>>,
                     _generator |-> found.value])

\* Mod.__getattr__ looking the name up in the built-in generator's types
\* instead of the types of the generator the Mod is bound to
Mod__getattr___builtin_types(mod, name) ==
    LET types == element_types(Fabric1)
    IN  IF name \in DOMAIN types THEN Return(types[name]) ELSE Raise("AttributeError")

\* Mod.__getattr__: the class behind a category name
Mod__getattr__(mod, name) ==
    LET types == element_types(mod._generator)
    IN  IF name \in DOMAIN types THEN Return(types[name]) ELSE Raise("AttributeError")

ConsoleAction(command) == [type |-> "console", command |-> command]

\* Mod.sendConsole recording into the outermost context, stack[0]
sendConsole_outermost(mod, command) ==
    LET action == ConsoleAction(command)
        stack == mod._action_capture_stack
    IN  IF stack # <<>>
        THEN [mod EXCEPT !._action_capture_stack[1] = Append(@, action)]
        ELSE [mod EXCEPT !.startup_actions = Append(@, action)]

\* Mod.sendConsole with insert(0, action) for append(action)
sendConsole_prepends(mod, command) ==
    LET action == ConsoleAction(command)
        stack == mod._action_capture_stack
    IN  IF stack # <<>>
        THEN [mod EXCEPT !._action_capture_stack[Len(stack)] = <<action>> \o @]
        ELSE [mod EXCEPT !.startup_actions = <<action>> \o @]

\* Mod.sendConsole
sendConsole(mod, command) ==
    LET action == ConsoleAction(command)
        stack == mod._action_capture_stack
    IN  IF stack # <<>>
        THEN [mod EXCEPT !._action_capture_stack[Len(stack)] = Append(@, action)]
        ELSE [mod EXCEPT !.startup_actions = Append(@, action)]

\* Mod._run_action_capture up to the call of func: a new empty list is pushed
capture_enter(mod) ==
    [mod EXCEPT !._action_capture_stack = Append(@, <<>>)]

\* Mod._run_action_capture without try/finally: no pop when func raises
capture_exit_no_finally(mod, raised) ==
    IF raised THEN mod
    ELSE [mod EXCEPT !._action_capture_stack = SubSeq(@, 1, Len(@) - 1)]

\* Mod._run_action_capture moving the actions of a handler that raised to
\* startup_actions
capture_exit_keeps_raised(mod, raised) ==
    [mod EXCEPT !._action_capture_stack = SubSeq(@, 1, Len(@) - 1),
                !.startup_actions =
                    IF raised
                    THEN @ \o mod._action_capture_stack[Len(mod._action_capture_stack)]
                    ELSE @]

\* Mod._run_action_capture from the return of func: the finally clause pops,
\* after a normal return and after an exception alike
capture_exit(mod, raised) ==
    [mod EXCEPT !._action_capture_stack = SubSeq(@, 1, Len(@) - 1)]

\* the list _run_action_capture returns: the one it pushed
captured(mod) == mod._action_capture_stack[Len(mod._action_capture_stack)]

\* Mod.add skipping an element the list already holds
add_skips_duplicates(mod, element) ==
    IF element \in Range(mod.elements) THEN mod
    ELSE [mod EXCEPT !.elements = Append(@, element)]

\* Mod.add
add(mod, element) == [mod EXCEPT !.elements = Append(@, element)]

\* Mod.to_manifest
to_manifest(mod, elements) ==
    [author |-> mod.author, generator |-> mod.generator, mod_id |-> mod.mod_id,
     name |-> mod.name, version |-> mod.version,
     startup_actions |-> mod.startup_actions,
     elements |-> [i \in 1..Len(mod.elements) |-> to_dict(elements[mod.elements[i]])]]

\* _ElementEventNamespace.__getattr__ without the EVENT_NAMES check
Event__getattr___unchecked(element, name) == Return(name)

\* _ElementEventNamespace.__getattr__: the name must be one of EVENT_NAMES
Event__getattr__(element, name) ==
    IF name \in Range(EVENT_NAMES(element.cls)) THEN Return(name) ELSE Raise("AttributeError")

\* decorator assigning events[name] = [actions] for the append
events_append_overwrites(events, name, actions) ==
    [n \in DOMAIN events \cup {name} |-> IF n = name THEN <<actions>> ELSE events[n]]

\* decorator: self._element.events[name].append(actions) on a defaultdict
events_append(events, name, actions) ==
    [n \in DOMAIN events \cup {name} |->
        IF n = name
        THEN (IF n \in DOMAIN events THEN Append(events[n], actions) ELSE <<actions>>)
        ELSE events[n]]

-----------------------------------------------------------------------------
(* The Fabric generator: helpers.                                          *)

\* str(x) for an optional string: str(None) is the text "None"
Str(x) == IF x = None THEN <<"N","o","n","e">> ELSE x

Letters == Range(UpperLetters) \cup Range(LowerLetters)
Alnum == Letters \cup Range(Digits)

\* str.upper() on one character
UpperChar(c) ==
    IF c \in Range(LowerLetters) THEN UpperLetters[IndexOf(LowerLetters, c)] ELSE c

RECURSIVE Concat(_)
Concat(ws) == IF ws = <<>> THEN <<>> ELSE ws[1] \o Concat(Tail(ws))

_camel(value) ==
    LET parts == SplitRuns(value, AllChars \ Alnum)
        joined == Concat([i \in 1..Len(parts) |->
                             <<UpperChar(parts[i][1])>> \o Tail(parts[i])])
    IN  IF joined # <<>> THEN joined ELSE <<"G","e","n","e","r","a","t","e","d">>

_package_safe(value, fallback) ==
    LET fragment == Strip(SubRuns(Lower(value),
                                  AllChars \ (Range(LowerLetters) \cup Range(Digits) \cup {"_"}),
                                  "_"), {"_"})
    IN  IF fragment # <<>> THEN fragment ELSE fallback

\* the characters [a-z0-9_.-] of a namespace
NamespaceChars == Range(LowerLetters) \cup Range(Digits) \cup {"_", ".", "-"}

\* re.fullmatch(r"[a-z0-9_.-]+:[a-z0-9/._-]+", value)
_is_literal_identifier(value) ==
    \E i \in 1..Len(value) :
       /\ value[i] = ":"
       /\ i > 1
       /\ i < Len(value)
       /\ \A j \in 1..(i - 1) : value[j] \in NamespaceChars
       /\ \A j \in (i + 1)..Len(value) : value[j] \in IdPathChars

\* value.split(":", 1) when ":" is in value
SplitColon(value) ==
    LET i == CHOOSE k \in 1..Len(value) :
                 value[k] = ":" /\ \A j \in 1..(k - 1) : value[j] # ":"
    IN  <<SubSeq(value, 1, i - 1), SubSeq(value, i + 1, Len(value))>>

_split_namespaced_id(value, default_namespace) ==
    IF ":" \in Range(value)
    THEN <<_normalize_id_path(SplitColon(value)[1], default_namespace),
           _normalize_id_path(SplitColon(value)[2], <<"g","e","n","e","r","a","t","e","d">>)>>
    ELSE <<default_namespace, _normalize_id_path(value, <<"g","e","n","e","r","a","t","e","d">>)>>

\* _resolve_item_like_id qualifying every value that is not a declared name
\* with minecraft:, a literal identifier included
_resolve_item_like_id_requalifies(value, mod_id, generated_items, generated_blocks) ==
    LET normalized == _normalize_id_path(value, <<"g","e","n","e","r","a","t","e","d">>)
    IN  IF normalized \in generated_items \/ normalized \in generated_blocks
        THEN mod_id \o <<":">> \o normalized
        ELSE <<"m","i","n","e","c","r","a","f","t",":">> \o normalized

_resolve_item_like_id(value, mod_id, generated_items, generated_blocks) ==
    IF _is_literal_identifier(value) THEN value
    ELSE LET normalized == _normalize_id_path(value, <<"g","e","n","e","r","a","t","e","d">>)
         IN  IF normalized \in generated_items \/ normalized \in generated_blocks
             THEN mod_id \o <<":">> \o normalized
             ELSE <<"m","i","n","e","c","r","a","f","t",":">> \o normalized

\* Path(p).stem: the last component without its last suffix
Stem(p) ==
    LET slashes == {i \in 1..Len(p) : p[i] = "/"}
        start == IF slashes = {} THEN 1
                 ELSE (CHOOSE i \in slashes : \A j \in slashes : j <= i) + 1
        base == SubSeq(p, start, Len(p))
        dots == {i \in 2..Len(base) : base[i] = "."}
    IN  IF dots = {} THEN base
        ELSE SubSeq(base, 1, (CHOOSE i \in dots : \A j \in dots : j <= i) - 1)

-----------------------------------------------------------------------------
(* The Fabric generator: element classes.  A constructor takes the owner   *)
(* and the record of its keyword arguments and gives the exception raised  *)
(* or the element made.  Floats are written as their texts.                *)

FabricBlockDefaults ==
    [identifier |-> None, name |-> None, texture |-> None, model |-> None,
     hardness |-> "1.5", resistance |-> "None", luminance |-> 0,
     requires_tool |-> FALSE, creative_tab |-> None]

FabricBlock__init__(mod, kw) ==
    LET block_id == _normalize_id_path(OrElse(kw.identifier, kw.name), <<"b","l","o","c","k">>)
    IN  Return(BaseElement(mod, "FabricBlock", block_id,
            [identifier |-> block_id,
             display_name |-> OrElse(kw.name, _display_name(block_id)),
             texture |-> kw.texture, model |-> kw.model,
             hardness |-> kw.hardness,
             resistance |-> IF kw.resistance # "None" THEN kw.resistance
                            ELSE kw.hardness,
             luminance |-> Max(0, kw.luminance),
             requires_tool |-> kw.requires_tool,
             creative_tab |-> IF Truthy(kw.creative_tab)
                              THEN _normalize_id_path(kw.creative_tab, <<>>)
                              ELSE None]))

_RECIPE_TYPES ==
    {<<"s","h","a","p","e","d">>, <<"s","h","a","p","e","l","e","s","s">>, <<"s","m","e","l","t","i","n","g">>, <<"b","l","a","s","t","i","n","g">>, <<"s","m","o","k","i","n","g">>,
     <<"c","a","m","p","f","i","r","e","_","c","o","o","k","i","n","g">>}

\* pattern, key and ingredients: None is written as the empty list or dict,
\* which the constructor treats alike (`not pattern`, `list(pattern or [])`)
FabricRecipeDefaults ==
    [recipe_type |-> <<"s","h","a","p","e","l","e","s","s">>, output |-> <<"s","t","i","c","k">>, identifier |-> None,
     count |-> 1, pattern |-> <<>>, key |-> <<>>, ingredients |-> <<>>,
     input_item |-> None, experience |-> "0.0", cooking_time |-> 200]

FabricRecipe__init__(mod, kw) ==
    LET kind == Strip(Lower(kw.recipe_type), Whitespace)
        recipe_id == _normalize_id_path(
                         OrElse(kw.identifier, kind \o <<"_">> \o kw.output),
                         kind \o <<"_","r","e","c","i","p","e">>)
    IN  IF kind \notin _RECIPE_TYPES THEN Raise("ValueError")
        ELSE IF kind = <<"s","h","a","p","e","d">> /\ (kw.pattern = <<>> \/ DOMAIN kw.key = {})
        THEN Raise("ValueError")
        ELSE IF kind = <<"s","h","a","p","e","l","e","s","s">> /\ kw.ingredients = <<>> THEN Raise("ValueError")
        ELSE IF kind \notin {<<"s","h","a","p","e","d">>, <<"s","h","a","p","e","l","e","s","s">>} /\ ~Truthy(kw.input_item)
        THEN Raise("ValueError")
        ELSE Return(BaseElement(mod, "FabricRecipe", recipe_id,
                 [identifier |-> recipe_id, recipe_type |-> kind,
                  output |-> kw.output, count |-> Max(1, kw.count),
                  pattern |-> kw.pattern, key |-> kw.key,
                  ingredients |-> kw.ingredients, input_item |-> kw.input_item,
                  experience |-> kw.experience,
                  cooking_time |-> Max(1, kw.cooking_time)]))

FabricTagDefaults ==
    [registry |-> <<"i","t","e","m">>, identifier |-> <<"t","a","g">>, values |-> <<>>, replace |-> FALSE]

\* FabricTag.__init__; mod_id is mod.mod_id
FabricTag__init__(mod, mod_id, kw) ==
    LET reg == Strip(Lower(kw.registry), Whitespace)
        split == _split_namespaced_id(kw.identifier, mod_id)
    IN  IF reg \notin {<<"i","t","e","m">>, <<"b","l","o","c","k">>} THEN Raise("ValueError")
        ELSE Return(BaseElement(mod, "FabricTag",
                 _normalize_id_path(split[1] \o <<"_">> \o split[2], <<"t","a","g">>),
                 [registry |-> reg, namespace |-> split[1], identifier |-> split[2],
                  values |-> kw.values, replace |-> kw.replace]))

\* A Java source text, by what the generator reads of it: whether it has
\* any character, and what the package and the class patterns find in it
\* (_extract_package, _extract_class_name).  NoText is None.
NoText == [is_str |-> FALSE, empty |-> TRUE, package |-> None, class_name |-> None]
EmptyText == [is_str |-> TRUE, empty |-> TRUE, package |-> None, class_name |-> None]
TextTruthy(text) == text.is_str /\ ~text.empty
_extract_package(source) == source.package
_extract_class_name(source) == source.class_name

FabricJavaSourceDefaults ==
    [class_name |-> None, source |-> NoText, source_file |-> None,
     package |-> None, entrypoint |-> <<"n","o","n","e">>, initialize |-> None,
     identifier |-> None]

\* FabricJavaSource.__init__ refusing only the call that gives neither input
FabricJavaSource__init___accepts_both(mod, kw) ==
    LET entrypoint_name == Strip(Lower(kw.entrypoint), Whitespace)
        from_source == IF TextTruthy(kw.source) /\ ~Truthy(kw.class_name)
                       THEN _extract_class_name(kw.source) ELSE kw.class_name
        from_file == IF Truthy(kw.source_file) /\ ~Truthy(from_source)
                     THEN Stem(kw.source_file) ELSE from_source
        resolved_class == OrElse(from_file, <<"I","n","j","e","c","t","e","d","J","a","v","a","S","o","u","r","c","e">>)
    IN  IF ~TextTruthy(kw.source) /\ ~Truthy(kw.source_file) THEN Raise("ValueError")
        ELSE IF entrypoint_name \notin {<<"n","o","n","e">>, <<"m","a","i","n">>, <<"c","l","i","e","n","t">>, <<"s","e","r","v","e","r">>}
        THEN Raise("ValueError")
        ELSE Return(BaseElement(mod, "FabricJavaSource",
                 _normalize_id_path(OrElse(kw.identifier, resolved_class), <<"j","a","v","a","_","s","o","u","r","c","e">>),
                 [class_name |-> resolved_class, source |-> kw.source,
                  source_file |-> kw.source_file, package |-> kw.package,
                  entrypoint |-> entrypoint_name,
                  initialize |-> IF entrypoint_name # <<"n","o","n","e">> /\ kw.initialize = None
                                 THEN <<"i","n","i","t">> ELSE kw.initialize]))

FabricJavaSource__init__(mod, kw) ==
    LET entrypoint_name == Strip(Lower(kw.entrypoint), Whitespace)
        from_source == IF TextTruthy(kw.source) /\ ~Truthy(kw.class_name)
                       THEN _extract_class_name(kw.source) ELSE kw.class_name
        from_file == IF Truthy(kw.source_file) /\ ~Truthy(from_source)
                     THEN Stem(kw.source_file) ELSE from_source
        resolved_class == OrElse(from_file, <<"I","n","j","e","c","t","e","d","J","a","v","a","S","o","u","r","c","e">>)
    IN  IF TextTruthy(kw.source) = Truthy(kw.source_file) THEN Raise("ValueError")
        ELSE IF entrypoint_name \notin {<<"n","o","n","e">>, <<"m","a","i","n">>, <<"c","l","i","e","n","t">>, <<"s","e","r","v","e","r">>}
        THEN Raise("ValueError")
        ELSE Return(BaseElement(mod, "FabricJavaSource",
                 _normalize_id_path(OrElse(kw.identifier, resolved_class), <<"j","a","v","a","_","s","o","u","r","c","e">>),
                 [class_name |-> resolved_class, source |-> kw.source,
                  source_file |-> kw.source_file, package |-> kw.package,
                  entrypoint |-> entrypoint_name,
                  initialize |-> IF entrypoint_name # <<"n","o","n","e">> /\ kw.initialize = None
                                 THEN <<"i","n","i","t">> ELSE kw.initialize]))

\* payload: <<>> is None, <<d>> the JSON object d, a function from its keys
FabricWorldgenDefaults ==
    [worldgen_type |-> <<"p","l","a","c","e","d","_","f","e","a","t","u","r","e">>, identifier |-> <<"w","o","r","l","d","g","e","n">>,
     namespace |-> None, payload |-> <<>>, payload_file |-> None]

\* FabricWorldgen.__init__; mod_id is mod.mod_id.  The payload is stored as a
\* deep copy, which as a value is the payload.
FabricWorldgen__init__(mod, mod_id, kw) ==
    LET wg_type == _normalize_id_path(kw.worldgen_type, <<"p","l","a","c","e","d","_","f","e","a","t","u","r","e">>)
        wg_id == _normalize_id_path(kw.identifier, <<"w","o","r","l","d","g","e","n">>)
    IN  IF kw.payload # <<>> /\ kw.payload_file # None THEN Raise("ValueError")
        ELSE Return(BaseElement(mod, "FabricWorldgen",
                 _normalize_id_path(wg_type \o <<"_">> \o wg_id, <<"w","o","r","l","d","g","e","n">>),
                 [worldgen_type |-> wg_type, identifier |-> wg_id,
                  namespace |-> IF Truthy(kw.namespace)
                                THEN _normalize_id_path(kw.namespace, mod_id)
                                ELSE mod_id,
                  payload |-> kw.payload, payload_file |-> kw.payload_file]))

\* the defaults of FabricTab.__init__'s keyword arguments
FabricTabDefaults == [identifier |-> None, name |-> None, icon |-> None]

\* FabricTab.__init__: the icon is stored as given
FabricTab__init__(mod, kw) ==
    LET tab_id == _normalize_id_path(OrElse(kw.identifier, kw.name), <<"t","a","b">>)
    IN  Return(BaseElement(mod, "FabricTab", tab_id,
            [identifier |-> tab_id,
             display_name |-> OrElse(kw.name, _display_name(tab_id)),
             icon |-> kw.icon]))

\* the keys of _SPAWN_GROUPS; each maps to its upper-case text
_SPAWN_GROUPS ==
    {<<"m","o","n","s","t","e","r">>, <<"c","r","e","a","t","u","r","e">>,
     <<"a","m","b","i","e","n","t">>,
     <<"w","a","t","e","r","_","c","r","e","a","t","u","r","e">>,
     <<"w","a","t","e","r","_","a","m","b","i","e","n","t">>,
     <<"u","n","d","e","r","g","r","o","u","n","d","_","w","a","t","e","r","_","c","r","e","a","t","u","r","e">>,
     <<"a","x","o","l","o","t","l","s">>, <<"m","i","s","c">>}

_spawn_group_constant(value) ==
    LET group == Strip(Lower(value), Whitespace)
    IN  IF group \in _SPAWN_GROUPS THEN [i \in 1..Len(group) |-> UpperChar(group[i])]
        ELSE <<"C","R","E","A","T","U","R","E">>

\* _parse_color of None or of an int: None, or the number brought into
\* 0..0xFFFFFF
_parse_color(value) ==
    IF value = NoInt THEN NoInt
    ELSE <<Max(0, IF value[1] < 16777215 THEN value[1] ELSE 16777215)>>

\* the defaults of FabricEntity.__init__'s keyword arguments; the floats in
\* hundredths
FabricEntityDefaults ==
    [identifier |-> None, name |-> None, spawn_group |-> <<"c","r","e","a","t","u","r","e">>,
     width |-> 60, height |-> 195, max_health |-> 2000, movement_speed |-> 25,
     attack_damage |-> 200, creative_tab |-> None,
     spawn_egg_primary |-> NoInt, spawn_egg_secondary |-> NoInt,
     tracking_range |-> 8, tracked_update_rate |-> 3,
     force_tracked_velocity_updates |-> FALSE]

\* FabricEntity.__init__: a colour given alone is the other colour too
FabricEntity__init__(mod, kw) ==
    LET entity_id == _normalize_id_path(OrElse(kw.identifier, kw.name), <<"e","n","t","i","t","y">>)
        primary == _parse_color(kw.spawn_egg_primary)
        secondary == _parse_color(kw.spawn_egg_secondary)
    IN  Return(BaseElement(mod, "FabricEntity", entity_id,
            [identifier |-> entity_id,
             display_name |-> OrElse(kw.name, _display_name(entity_id)),
             spawn_group |-> _spawn_group_constant(kw.spawn_group),
             width |-> Max(10, kw.width), height |-> Max(10, kw.height),
             max_health |-> Max(100, kw.max_health),
             movement_speed |-> Max(1, kw.movement_speed),
             attack_damage |-> Max(0, kw.attack_damage),
             creative_tab |-> IF Truthy(kw.creative_tab)
                              THEN _normalize_id_path(kw.creative_tab, <<>>)
                              ELSE None,
             spawn_egg_primary |-> IF primary = NoInt THEN secondary ELSE primary,
             spawn_egg_secondary |-> IF secondary = NoInt THEN primary ELSE secondary,
             tracking_range |-> Max(1, kw.tracking_range),
             tracked_update_rate |-> Max(1, kw.tracked_update_rate),
             force_tracked_velocity_updates |-> kw.force_tracked_velocity_updates]))

-----------------------------------------------------------------------------
(* The Fabric generator: compile.  The file system is a function from      *)
(* paths to file contents.  A path under the output root is written by its *)
(* pattern (dir) and the namespace and name put into the pattern; a path   *)
(* the user names (a texture, a Java file) has dir "" and lies outside the *)
(* root.  All Mods are compiled into the same output directory.            *)

\* the characters of the identity fields a Mod is made with (mod.py:15-19)
Chars(s) ==
    CASE s = "examplemod" -> <<"e","x","a","m","p","l","e","m","o","d">>
      [] s = "Example Mod" -> <<"E","x","a","m","p","l","e"," ","M","o","d">>
      [] s = "0.1.0" -> <<"0",".","1",".","0">>
      [] s = "tester" -> <<"t","e","s","t","e","r">>
      [] s = "item" -> <<"i","t","e","m">>
      [] s = "block" -> <<"b","l","o","c","k">>

File(dir, ns, name) == [dir |-> dir, ns |-> ns, name |-> name]
External(p) == File("", <<>>, p)
UnderRoot(p) == p.dir \notin {"", "demo-no-item-1.0.txt"}

\* path.exists() and path.is_file()
IsFile(fs, p) == p \in DOMAIN fs

\* path.write_text(...), the parent directories made as needed
Write(fs, p, content) ==
    [q \in DOMAIN fs \cup {p} |-> IF q = p THEN content ELSE fs[q]]

\* the files under the output root
Tree(fs) == [p \in {q \in DOMAIN fs : UnderRoot(q)} |-> fs[p]]

\* compile without the removal of the root
rmtree_skipped(fs) == fs

\* shutil.rmtree(root)
rmtree(fs) == [p \in {q \in DOMAIN fs : ~UnderRoot(q)} |-> fs[p]]

\* [element for element in mod.elements if isinstance(element, cls)]
RECURSIVE OfClass(_, _)
OfClass(elements, cls) ==
    IF elements = <<>> THEN <<>>
    ELSE (IF elements[1].cls = cls THEN <<elements[1]>> ELSE <<>>)
             \o OfClass(Tail(elements), cls)

\* _commands_from_actions keeping the command of every console action, the
\* empty ones too
_commands_from_actions_keeps_empty(actions) ==
    LET console == SelectSeq(actions, LAMBDA a : a.type = "console")
    IN  [i \in 1..Len(console) |-> console[i].command]

RECURSIVE _commands_from_actions(_)
_commands_from_actions(actions) ==
    IF actions = <<>> THEN <<>>
    ELSE (IF actions[1].type = "console" /\ actions[1].command # ""
          THEN <<actions[1].command>> ELSE <<>>)
             \o _commands_from_actions(Tail(actions))

_java_const(value) ==
    LET constant == Strip(SubRuns(value, AllChars \ Alnum, "_"), {"_"})
    IN  IF constant # <<>> THEN [i \in 1..Len(constant) |-> UpperChar(constant[i])]
        ELSE <<"U","N","N","A","M","E","D">>

NoHooks == [e \in {<<"m","a","i","n">>, <<"c","l","i","e","n","t">>, <<"s","e","r","v","e","r">>} |-> <<>>]

\* a hook recorded for every declared entrypoint, method or no method
HookRecorded_without_method(props, hooks) == props.entrypoint \in DOMAIN hooks

\* `if entrypoint in hooks and init_method`
HookRecorded(props, hooks) ==
    props.entrypoint \in DOMAIN hooks /\ Truthy(props.initialize)

\* _write_injected_java from the source at position i on: the file system,
\* the hooks collected, and the exception that ended the loop
RECURSIVE InjectFrom(_, _, _, _, _)
InjectFrom(fs, default_package, java_sources, i, hooks) ==
    IF i > Len(java_sources) THEN [exc |-> "none", fs |-> fs, hooks |-> hooks]
    ELSE
    LET props == java_sources[i].properties
        has_file == Truthy(props.source_file)
    IN  IF has_file /\ ~IsFile(fs, External(props.source_file))
        THEN [exc |-> "FileNotFoundError", fs |-> fs, hooks |-> hooks]
        ELSE
        LET source_text == IF has_file THEN fs[External(props.source_file)].text
                           ELSE props.source
        IN  IF ~source_text.is_str
            THEN [exc |-> "ValueError", fs |-> fs, hooks |-> hooks]
            ELSE
            LET package_name == OrElse(props.package,
                                    OrElse(_extract_package(source_text), default_package))
                class_name == OrElse(props.class_name,
                                  OrElse(_extract_class_name(source_text), <<"I","n","j","e","c","t","e","d","C","l","a","s","s">>))
                final_source ==
                    [package_line |-> IF _extract_package(source_text) = None
                                      THEN package_name ELSE None,
                     source |-> source_text]
                written == Write(fs, File("src/main/java/{ns}/{name}.java",
                                          package_name, class_name),
                                 [java_source |-> final_source])
                hooked == IF HookRecorded(props, hooks)
                          THEN [hooks EXCEPT ![props.entrypoint] =
                                   Append(@, <<package_name \o <<".">> \o class_name,
                                               props.initialize>>)]
                          ELSE hooks
            IN  InjectFrom(written, default_package, java_sources, i + 1, hooked)

_write_injected_java(fs, default_package, java_sources) ==
    InjectFrom(fs, default_package, java_sources, 1, NoHooks)

\* the versions the generator class names (fabric_1_21_11.py:553-557, 29)
GeneratorDetails ==
    [minecraft_version |-> "1.21.11", loader_version |-> "0.18.2",
     fabric_api_version |-> "0.139.4+1.21.11", yarn_mappings |-> "1.21.11+build.1",
     loom_version |-> "1.13.3", gradle_version |-> "9.2.1"]

\* a file written from a fixed template: the template and the values put in
Template(name, args) == [template |-> name, args |-> args]

_write_gradle_files(fs, mod, author_fragment) ==
    LET a == Write(fs, File("settings.gradle", <<>>, <<>>),
                   Template("settings.gradle", <<Chars(mod.mod_id)>>))
        b == Write(a, File("gradle.properties", <<>>, <<>>),
                   Template("gradle.properties",
                            <<Chars(mod.version), author_fragment, Chars(mod.mod_id)>>))
        c == Write(b, File("build.gradle", <<>>, <<>>), Template("build.gradle", <<>>))
        d == Write(c, File("gradle/wrapper/gradle-wrapper.properties", <<>>, <<>>),
                   Template("gradle-wrapper.properties", <<>>))
        e == Write(d, File("gradlew", <<>>, <<>>), Template("gradlew", <<>>))
        f == Write(e, File("gradlew.bat", <<>>, <<>>), Template("gradlew.bat", <<>>))
    IN  Last(<<a, b, c, d, e, f>>)

_write_fabric_metadata(fs, mod, package_name, main_class, has_client, has_server) ==
    LET class == package_name \o <<".">> \o main_class
        entrypoints ==
            [e \in {"main"} \cup (IF has_client THEN {"client"} ELSE {})
                            \cup (IF has_server THEN {"server"} ELSE {}) |->
                CASE e = "main" -> <<class>>
                  [] e = "client" -> <<class \o <<"C","l","i","e","n","t">>>>
                  [] e = "server" -> <<class \o <<"S","e","r","v","e","r">>>>]
    IN  Write(fs, File("src/main/resources/fabric.mod.json", <<>>, <<>>),
              [id |-> mod.mod_id, name |-> mod.name, authors |-> <<mod.author>>,
               entrypoints |-> entrypoints])

_write_manifest(fs, mod, elems_) ==
    Write(fs, File("src/main/resources/data/{ns}/modpy/manifest.json",
                   Chars(mod.mod_id), <<>>),
          [manifest |-> to_manifest(mod, elems_),
           generator_details |-> GeneratorDetails])

JavaFile(package_name, class_name) ==
    File("src/main/java/{ns}/{name}.java", package_name, class_name)

_write_main_mod(fs, package_name, main_class, mod, write_client_entrypoint, write_server_entrypoint) ==
    LET a == Write(fs, JavaFile(package_name, main_class),
                   Template("ModInitializer",
                            <<package_name, main_class, Chars(mod.mod_id), Chars(mod.name)>>))
        b == IF write_client_entrypoint
             THEN Write(a, JavaFile(package_name, main_class \o <<"C","l","i","e","n","t">>),
                        Template("ClientModInitializer", <<package_name, main_class>>))
             ELSE a
    IN  IF write_server_entrypoint
        THEN Write(b, JavaFile(package_name, main_class \o <<"S","e","r","v","e","r">>),
                   Template("DedicatedServerModInitializer", <<package_name, main_class>>))
        ELSE b

\* {element.name for element in elements}
Names(elements) == {elements[i].name : i \in 1..Len(elements)}

\* an entity has a spawn egg when both colours are set
HasSpawnEgg(entity) ==
    /\ entity.properties.spawn_egg_primary # NoInt
    /\ entity.properties.spawn_egg_secondary # NoInt

\* the dict _write_entities returns: entity name -> constant of its spawn egg
spawn_egg_consts(entities) ==
    [n \in {entities[i].name : i \in {j \in 1..Len(entities) : HasSpawnEgg(entities[j])}} |->
        _java_const(n) \o <<"_","S","P","A","W","N","_","E","G","G">>]

\* entity_classes[entity.name]
EntityClass(name) == _camel(name) \o <<"E","n","t","i","t","y">>

\* the loop of _write_entities: the class file of each entity
RECURSIVE EntityClassFiles(_, _, _)
EntityClassFiles(fs, package_name, entities) ==
    IF entities = <<>> THEN fs
    ELSE EntityClassFiles(
             Write(fs, JavaFile(package_name, EntityClass(entities[1].name)),
                   [class |-> EntityClass(entities[1].name), package |-> package_name,
                    max_health |-> entities[1].properties.max_health,
                    movement_speed |-> entities[1].properties.movement_speed,
                    attack_damage |-> entities[1].properties.attack_damage]),
             package_name, Tail(entities))

\* _write_entities: the class of each entity, then the registry class
_write_entities(fs, package_name, main_class, entities) ==
    Write(EntityClassFiles(fs, package_name, entities),
          JavaFile(package_name, <<"G","e","n","e","r","a","t","e","d","E","n","t","i","t","i","e","s">>),
          [entities |-> [i \in 1..Len(entities) |->
                            [const |-> _java_const(entities[i].name),
                             class |-> EntityClass(entities[i].name),
                             name |-> entities[i].name,
                             spawn_group |-> entities[i].properties.spawn_group,
                             width |-> entities[i].properties.width,
                             height |-> entities[i].properties.height,
                             tracking_range |-> entities[i].properties.tracking_range,
                             update_rate |-> entities[i].properties.tracked_update_rate,
                             force_velocity |-> entities[i].properties.force_tracked_velocity_updates,
                             spawn_egg |-> IF HasSpawnEgg(entities[i])
                                           THEN spawn_egg_consts(entities)[entities[i].name]
                                           ELSE <<>>]],
           package |-> package_name, main_class |-> main_class])

_write_items(fs, package_name, main_class, items) ==
    Write(fs, JavaFile(package_name, <<"G","e","n","e","r","a","t","e","d","I","t","e","m","s">>),
          [items |-> [i \in 1..Len(items) |->
                         [const |-> _java_const(items[i].name),
                          name |-> items[i].name,
                          maxDamage |-> items[i].properties.durability,
                          maxCount |-> IF items[i].properties.durability # NoInt
                                       THEN NoInt
                                       ELSE <<items[i].properties.max_count>>,
                          fireproof |-> items[i].properties.fireproof,
                          rarity |-> items[i].properties.rarity]],
           package |-> package_name, main_class |-> main_class])

_write_blocks(fs, package_name, main_class, blocks) ==
    Write(fs, JavaFile(package_name, <<"G","e","n","e","r","a","t","e","d","B","l","o","c","k","s">>),
          [blocks |-> [i \in 1..Len(blocks) |->
                          [const |-> _java_const(blocks[i].name),
                           name |-> blocks[i].name,
                           hardness |-> blocks[i].properties.hardness,
                           resistance |-> blocks[i].properties.resistance,
                           luminance |-> IF blocks[i].properties.luminance > 0
                                         THEN <<blocks[i].properties.luminance>>
                                         ELSE NoInt,
                           requiresTool |-> blocks[i].properties.requires_tool]],
           package |-> package_name, main_class |-> main_class])

\* no Command can be constructed yet
_write_commands(fs, package_name, main_class) ==
    Write(fs, JavaFile(package_name, <<"G","e","n","e","r","a","t","e","d","C","o","m","m","a","n","d","s">>),
          [commands |-> <<>>, package |-> package_name, main_class |-> main_class])

\* new ItemStack(<class>.<field>), a field of a generated class or of Items
StackOf(class, field) ==
    [class |-> class, field |-> field, namespace |-> <<>>, path |-> <<>>]

\* new ItemStack(Registries.ITEM.get(Identifier.of(namespace, path)))
StackOfIdentifier(identifier) ==
    [class |-> "Registries.ITEM", field |-> <<>>,
     namespace |-> identifier[1], path |-> identifier[2]]

\* DeclaredIcon looking among the blocks before the items
DeclaredIcon_blocks_first(normalized, item_ids, block_ids, entity_ids, entity_spawn_egg_consts) ==
    IF normalized \in block_ids
    THEN <<StackOf("GeneratedBlocks", _java_const(normalized) \o <<"_","I","T","E","M">>)>>
    ELSE IF normalized \in item_ids
    THEN <<StackOf("GeneratedItems", _java_const(normalized))>>
    ELSE IF normalized \in entity_ids /\ normalized \in DOMAIN entity_spawn_egg_consts
    THEN <<StackOf("GeneratedEntities", entity_spawn_egg_consts[normalized])>>
    ELSE <<>>

\* the declared element the icon names: an item, else a block, else an entity
\* with a spawn egg; <<>> when it names none
DeclaredIcon(normalized, item_ids, block_ids, entity_ids, entity_spawn_egg_consts) ==
    IF normalized \in item_ids
    THEN <<StackOf("GeneratedItems", _java_const(normalized))>>
    ELSE IF normalized \in block_ids
    THEN <<StackOf("GeneratedBlocks", _java_const(normalized) \o <<"_","I","T","E","M">>)>>
    ELSE IF normalized \in entity_ids /\ normalized \in DOMAIN entity_spawn_egg_consts
    THEN <<StackOf("GeneratedEntities", entity_spawn_egg_consts[normalized])>>
    ELSE <<>>

\* the icon of a tab that names none: the first item, block or spawn egg
DefaultIcon(item_ids, block_ids, entity_spawn_egg_consts) ==
    IF item_ids # {}
    THEN StackOf("GeneratedItems", _java_const(Sorted(item_ids)[1]))
    ELSE IF block_ids # {}
    THEN StackOf("GeneratedBlocks", _java_const(Sorted(block_ids)[1]) \o <<"_","I","T","E","M">>)
    ELSE IF DOMAIN entity_spawn_egg_consts # {}
    THEN StackOf("GeneratedEntities",
                 entity_spawn_egg_consts[Sorted(DOMAIN entity_spawn_egg_consts)[1]])
    ELSE StackOf("Items", <<"S","T","O","N","E">>)

\* _item_group_icon_expression: the declared element the normalized icon
\* names, else the literal identifier, else the default (the second lookup
\* of the declared elements repeats the first and finds nothing)
_item_group_icon_expression(icon, mod_id, item_ids, block_ids, entity_ids, entity_spawn_egg_consts) ==
    IF icon # <<>> /\ DeclaredIcon(_normalize_id_path(icon, <<>>), item_ids, block_ids,
                                   entity_ids, entity_spawn_egg_consts) # <<>>
    THEN DeclaredIcon(_normalize_id_path(icon, <<>>), item_ids, block_ids,
                      entity_ids, entity_spawn_egg_consts)[1]
    ELSE IF icon # <<>> /\ _is_literal_identifier(icon)
    THEN StackOfIdentifier(_split_namespaced_id(icon, mod_id))
    ELSE DefaultIcon(item_ids, block_ids, entity_spawn_egg_consts)

\* tab_id = element.properties.get("creative_tab") or default_tab; the entry
\* is made `if tab_id and tab_id in tab_consts`
InTab(element, tab, tabs) ==
    LET default_tab == IF Len(tabs) = 1 THEN tabs[1].name ELSE None
        tab_id == OrElse(element.properties.creative_tab, default_tab)
    IN  Truthy(tab_id) /\ tab_id = tab

\* tab_entries[tab]: the items, then the blocks, then the spawn eggs
RECURSIVE TabEntries(_, _, _, _, _)
TabEntries(tab, tabs, elements, class, suffix) ==
    IF elements = <<>> THEN <<>>
    ELSE (IF InTab(elements[1], tab, tabs)
          THEN <<[class |-> class, field |-> _java_const(elements[1].name) \o suffix]>>
          ELSE <<>>) \o TabEntries(tab, tabs, Tail(elements), class, suffix)

\* the entities whose name has a spawn egg: `if not egg_const: continue`
RECURSIVE WithSpawnEgg(_, _)
WithSpawnEgg(entities, entity_spawn_egg_consts) ==
    IF entities = <<>> THEN <<>>
    ELSE (IF entities[1].name \in DOMAIN entity_spawn_egg_consts
          THEN <<entities[1]>> ELSE <<>>)
             \o WithSpawnEgg(Tail(entities), entity_spawn_egg_consts)

_write_item_groups(fs, package_name, main_class, mod_id, tabs, items, blocks, entities) ==
    Write(fs, JavaFile(package_name, <<"G","e","n","e","r","a","t","e","d","I","t","e","m","G","r","o","u","p","s">>),
          [tabs |-> [i \in 1..Len(tabs) |->
                        [const |-> _java_const(tabs[i].name), name |-> tabs[i].name,
                         icon |-> _item_group_icon_expression(
                                      IF Truthy(tabs[i].properties.icon)
                                      THEN tabs[i].properties.icon ELSE <<>>,
                                      mod_id, Names(items), Names(blocks), Names(entities),
                                      spawn_egg_consts(entities))]],
           entries |-> [i \in 1..Len(tabs) |->
                           TabEntries(tabs[i].name, tabs, items, "GeneratedItems", <<>>)
                               \o TabEntries(tabs[i].name, tabs, blocks, "GeneratedBlocks",
                                             <<"_","I","T","E","M">>)
                               \o TabEntries(tabs[i].name, tabs,
                                             WithSpawnEgg(entities, spawn_egg_consts(entities)),
                                             "GeneratedEntities",
                                             <<"_","S","P","A","W","N","_","E","G","G">>)],
           package |-> package_name, main_class |-> main_class])

\* element.events.get(name, [])
events_get(element, name) ==
    IF name \in DOMAIN element.events THEN element.events[name] ELSE <<>>

\* the registrations _write_events generates for one event of one element:
\* one per handler that recorded a command
RECURSIVE HandlerLines(_, _, _)
HandlerLines(handlers, event, const) ==
    IF handlers = <<>> THEN <<>>
    ELSE (IF _commands_from_actions(handlers[1]) # <<>>
          THEN <<[event |-> event, const |-> const,
                  commands |-> _commands_from_actions(handlers[1])]>>
          ELSE <<>>) \o HandlerLines(Tail(handlers), event, const)

RECURSIVE EventLines(_, _, _)
EventLines(elements, first, second) ==
    IF elements = <<>> THEN <<>>
    ELSE HandlerLines(events_get(elements[1], first), first, _java_const(elements[1].name))
         \o HandlerLines(events_get(elements[1], second), second,
                         _java_const(elements[1].name))
         \o EventLines(Tail(elements), first, second)

_write_events(fs, package_name, main_class, items, blocks, entities, startup_commands) ==
    Write(fs, JavaFile(package_name, <<"G","e","n","e","r","a","t","e","d","E","v","e","n","t","s">>),
          [startup |-> startup_commands,
           handlers |-> EventLines(items, "Drop", "Use")
                            \o EventLines(blocks, "Break", "Place")
                            \o EventLines(entities, "Spawn", "Death"),
           package |-> package_name, main_class |-> main_class])

_write_injected_hook_class(fs, package_name, class_name, hooks) ==
    Write(fs, JavaFile(package_name, class_name),
          [hooks |-> hooks, package |-> package_name, class |-> class_name])

_write_java_files(fs, package_name, mod, main_class, tabs, items, blocks, entities, startup_commands, hooks, write_client_entrypoint, write_server_entrypoint) ==
    Apply(Apply(Apply(Apply(Apply(Apply(Apply(Apply(Apply(
        _write_entities(fs, package_name, main_class, entities),
        LAMBDA a : _write_main_mod(a, package_name, main_class, mod,
                                   write_client_entrypoint, write_server_entrypoint)),
        LAMBDA b : _write_items(b, package_name, main_class, items)),
        LAMBDA c : _write_blocks(c, package_name, main_class, blocks)),
        LAMBDA d : _write_commands(d, package_name, main_class)),
        LAMBDA e : _write_item_groups(e, package_name, main_class, Chars(mod.mod_id),
                                      tabs, items, blocks, entities)),
        LAMBDA f : _write_events(f, package_name, main_class, items, blocks, entities,
                                 startup_commands)),
        LAMBDA g : _write_injected_hook_class(g, package_name, <<"G","e","n","e","r","a","t","e","d","I","n","j","e","c","t","e","d","M","a","i","n">>,
                                              hooks[<<"m","a","i","n">>])),
        LAMBDA h : _write_injected_hook_class(h, package_name, <<"G","e","n","e","r","a","t","e","d","I","n","j","e","c","t","e","d","C","l","i","e","n","t">>,
                                              hooks[<<"c","l","i","e","n","t">>])),
        LAMBDA i : _write_injected_hook_class(i, package_name, <<"G","e","n","e","r","a","t","e","d","I","n","j","e","c","t","e","d","S","e","r","v","e","r">>,
                                              hooks[<<"s","e","r","v","e","r">>]))

ResourceFile(pattern, ns, name) == File("src/main/resources/" \o pattern, ns, name)

_copy_file_if_exists(fs, source, target) ==
    IF ~Truthy(source) THEN [copied |-> FALSE, fs |-> fs]
    ELSE IF ~IsFile(fs, External(source)) THEN [copied |-> FALSE, fs |-> fs]
    ELSE [copied |-> TRUE, fs |-> Write(fs, target, fs[External(source)])]

\* dict[key] = value
DictSet(d, k, v) == [x \in DOMAIN d \cup {k} |-> IF x = k THEN v ELSE d[x]]

\* One turn of the loops of _write_assets over the items (kind "item") and
\* the blocks (kind "block"); st holds the file system, missing_assets and
\* lang_entries.
AssetsOf(st, mod_id, element, kind) ==
    LET name == element.name
        props == element.properties
        lang == DictSet(st.lang, Chars(kind) \o <<".">> \o mod_id \o <<".">> \o name,
                        Str(props.display_name))
        a == IF kind = "block"
             THEN Write(st.fs, ResourceFile("assets/{ns}/blockstates/{name}.json", mod_id, name),
                        [variants_model |-> mod_id \o <<":","b","l","o","c","k","/">> \o name])
             ELSE st.fs
        model_path == ResourceFile("assets/{ns}/models/" \o kind \o "/{name}.json",
                                   mod_id, name)
        model == _copy_file_if_exists(a, props.model, model_path)
        b == IF model.copied THEN model.fs
             ELSE Write(a, model_path,
                        [parent |-> IF kind = "item" THEN <<"m","i","n","e","c","r","a","f","t",":","i","t","e","m","/","g","e","n","e","r","a","t","e","d">>
                                    ELSE <<"m","i","n","e","c","r","a","f","t",":","b","l","o","c","k","/","c","u","b","e","_","a","l","l">>,
                         texture |-> mod_id \o <<":">> \o Chars(kind) \o <<"/">> \o name])
        c == IF kind = "block"
             THEN Write(b, ResourceFile("assets/{ns}/models/item/{name}.json", mod_id, name),
                        [parent |-> mod_id \o <<":","b","l","o","c","k","/">> \o name, texture |-> <<>>])
             ELSE b
        texture == _copy_file_if_exists(
                       c, props.texture,
                       ResourceFile("assets/{ns}/textures/" \o kind \o "/{name}.png",
                                    mod_id, name))
    IN  IF texture.copied
        THEN [fs |-> texture.fs, missing |-> st.missing, lang |-> lang]
        ELSE [fs |-> Write(c, ResourceFile("assets/{ns}/textures/" \o kind
                                               \o "/{name}.missing.txt", mod_id, name),
                           [missing_texture_source |-> Str(props.texture)]),
              missing |-> Append(st.missing, Str(props.texture)),
              lang |-> lang]

RECURSIVE AssetsLoop(_, _, _, _)
AssetsLoop(st, mod_id, elements, kind) ==
    IF elements = <<>> THEN st
    ELSE AssetsLoop(AssetsOf(st, mod_id, elements[1], kind), mod_id, Tail(elements), kind)

\* the list written as "missing": [asset for asset in missing_assets
\*                                if asset and asset != "None"]
RECURSIVE MissingListed(_)
MissingListed(missing) ==
    IF missing = <<>> THEN <<>>
    ELSE (IF missing[1] # <<>> /\ missing[1] # <<"N","o","n","e">> THEN <<missing[1]>> ELSE <<>>)
             \o MissingListed(Tail(missing))

\* the loop of _write_assets over the tabs: the name of each tab
RECURSIVE TabLang(_, _, _)
TabLang(lang, mod_id, tabs) ==
    IF tabs = <<>> THEN lang
    ELSE TabLang(DictSet(lang, <<"i","t","e","m","G","r","o","u","p",".">> \o mod_id \o <<".">> \o tabs[1].name,
                         Str(tabs[1].properties.display_name)),
                 mod_id, Tail(tabs))

\* One turn of the loop of _write_assets over the entities: the name of the
\* entity and, when it has a primary colour, the name and the model of its
\* spawn egg.
EntityAssetsOf(st, mod_id, entity) ==
    LET name == entity.name
        display_name == Str(entity.properties.display_name)
        lang == DictSet(st.lang, <<"e","n","t","i","t","y",".">> \o mod_id \o <<".">> \o name,
                        display_name)
    IN  IF entity.properties.spawn_egg_primary = NoInt
        THEN [fs |-> st.fs, missing |-> st.missing, lang |-> lang]
        ELSE [fs |-> Write(st.fs,
                           ResourceFile("assets/{ns}/models/item/{name}.json", mod_id,
                                        name \o <<"_","s","p","a","w","n","_","e","g","g">>),
                           [parent |-> <<"m","i","n","e","c","r","a","f","t",":","i","t","e","m","/","t","e","m","p","l","a","t","e","_","s","p","a","w","n","_","e","g","g">>,
                            texture |-> <<>>]),
              missing |-> st.missing,
              lang |-> DictSet(lang, <<"i","t","e","m",".">> \o mod_id \o <<".">> \o name
                                         \o <<"_","s","p","a","w","n","_","e","g","g">>,
                               display_name \o <<" ","S","p","a","w","n"," ","E","g","g">>)]

RECURSIVE EntityAssetsLoop(_, _, _)
EntityAssetsLoop(st, mod_id, entities) ==
    IF entities = <<>> THEN st
    ELSE EntityAssetsLoop(EntityAssetsOf(st, mod_id, entities[1]), mod_id, Tail(entities))

_write_assets(fs, mod_id, tabs, items, blocks, entities) ==
    LET st0 == [fs |-> fs, missing |-> <<>>,
                lang |-> TabLang([k \in {} |-> <<>>], mod_id, tabs)]
        st1 == AssetsLoop(st0, mod_id, items, "item")
        st2 == AssetsLoop(st1, mod_id, blocks, "block")
        st3 == EntityAssetsLoop(st2, mod_id, entities)
        a == Write(st3.fs, ResourceFile("assets/{ns}/lang/en_us.json", mod_id, <<>>),
                   [lang |-> st3.lang])
    IN  IF st3.missing # <<>>
        THEN Write(a, ResourceFile("assets/{ns}/modpy_missing_assets.json", mod_id, <<>>),
                   [missing |-> MissingListed(st3.missing)])
        ELSE a

RecipePayload(props, mod_id, items, blocks) ==
    LET resolve(v) == _resolve_item_like_id(Str(v), mod_id, Names(items), Names(blocks))
        output == resolve(props.output)
    IN  IF props.recipe_type = <<"s","h","a","p","e","d">>
        THEN [type |-> <<"m","i","n","e","c","r","a","f","t",":","c","r","a","f","t","i","n","g","_","s","h","a","p","e","d">>, pattern |-> props.pattern,
              key |-> [symbol \in DOMAIN props.key |-> resolve(props.key[symbol])],
              result |-> [item |-> output, count |-> props.count]]
        ELSE IF props.recipe_type = <<"s","h","a","p","e","l","e","s","s">>
        THEN [type |-> <<"m","i","n","e","c","r","a","f","t",":","c","r","a","f","t","i","n","g","_","s","h","a","p","e","l","e","s","s">>,
              ingredients |-> [i \in 1..Len(props.ingredients) |->
                                  resolve(props.ingredients[i])],
              result |-> [item |-> output, count |-> props.count]]
        ELSE [type |-> <<"m","i","n","e","c","r","a","f","t",":">> \o props.recipe_type,
              ingredient |-> resolve(props.input_item),
              result |-> output, experience |-> props.experience,
              cookingtime |-> props.cooking_time]

RECURSIVE _write_recipes(_, _, _, _, _)
_write_recipes(fs, mod_id, items, blocks, recipes) ==
    IF recipes = <<>> THEN fs
    ELSE LET props == recipes[1].properties
             split == _split_namespaced_id(Str(props.identifier), mod_id)
         IN  _write_recipes(
                 Write(fs, ResourceFile("data/{ns}/recipes/{name}.json", split[1], split[2]),
                       RecipePayload(props, mod_id, items, blocks)),
                 mod_id, items, blocks, Tail(recipes))

RECURSIVE _write_tags(_, _, _, _, _)
_write_tags(fs, mod_id, items, blocks, tags) ==
    IF tags = <<>> THEN fs
    ELSE LET props == tags[1].properties
             folder == IF props.registry = <<"i","t","e","m">> THEN "items" ELSE "blocks"
         IN  _write_tags(
                 Write(fs, ResourceFile("data/{ns}/tags/" \o folder \o "/{name}.json",
                                        props.namespace, props.identifier),
                       [replace |-> props.replace,
                        values |-> [i \in 1..Len(props.values) |->
                                       _resolve_item_like_id(Str(props.values[i]), mod_id,
                                                             Names(items), Names(blocks))]]),
                 mod_id, items, blocks, Tail(tags))

RECURSIVE _write_block_loot_tables(_, _, _)
_write_block_loot_tables(fs, mod_id, blocks) ==
    IF blocks = <<>> THEN fs
    ELSE LET payload == [type |-> <<"m","i","n","e","c","r","a","f","t",":","b","l","o","c","k">>,
                         entry |-> mod_id \o <<":">> \o blocks[1].name]
             a == Write(fs, ResourceFile("data/{ns}/loot_tables/blocks/{name}.json",
                                         mod_id, blocks[1].name), payload)
             b == Write(a, ResourceFile("data/{ns}/loot_table/blocks/{name}.json",
                                        mod_id, blocks[1].name), payload)
         IN  _write_block_loot_tables(b, mod_id, Tail(blocks))

\* _WORLDGEN_FEATURE_ALIASES.get(feature_id, feature_id)
_WORLDGEN_FEATURE_ALIASES_get(feature_id) ==
    IF feature_id = <<"m","i","n","e","c","r","a","f","t",":","o","r","e","_","d","i","a","m","o","n","d">> THEN <<"m","i","n","e","c","r","a","f","t",":","o","r","e","_","d","i","a","m","o","n","d","_","s","m","a","l","l">>
    ELSE feature_id

\* _resolve_json_payload handing out the element's own payload object
_resolve_json_payload_no_copy(fs, payload, payload_file) ==
    IF Truthy(payload_file)
    THEN IF ~IsFile(fs, External(payload_file))
         THEN [exc |-> "FileNotFoundError", payload |-> <<>>, shared |-> FALSE]
         ELSE [exc |-> "none", payload |-> fs[External(payload_file)].json,
               shared |-> FALSE]
    ELSE IF payload = <<>>
    THEN [exc |-> "none", payload |-> [k \in {} |-> <<>>], shared |-> FALSE]
    ELSE [exc |-> "none", payload |-> payload[1], shared |-> TRUE]

\* _resolve_json_payload: the JSON object to write; shared tells whether it
\* is the object the element holds (never: a file is decoded afresh and an
\* inline payload is deep-copied)
_resolve_json_payload(fs, payload, payload_file) ==
    IF Truthy(payload_file)
    THEN IF ~IsFile(fs, External(payload_file))
         THEN [exc |-> "FileNotFoundError", payload |-> <<>>, shared |-> FALSE]
         ELSE [exc |-> "none", payload |-> fs[External(payload_file)].json,
               shared |-> FALSE]
    ELSE IF payload = <<>>
    THEN [exc |-> "none", payload |-> [k \in {} |-> <<>>], shared |-> FALSE]
    ELSE [exc |-> "none", payload |-> payload[1], shared |-> FALSE]

\* _write_worldgen_entries from position i of mod.elements on: elements are
\* taken by their place in the object table elems_, so that a write through
\* a shared payload shows in the element
RECURSIVE _write_worldgen_entries(_, _, _, _)
_write_worldgen_entries(fs, elems_, ids, i) ==
    IF i > Len(ids) THEN [exc |-> "none", fs |-> fs, elems |-> elems_]
    ELSE IF elems_[ids[i]].cls # "FabricWorldgen"
    THEN _write_worldgen_entries(fs, elems_, ids, i + 1)
    ELSE
    LET props == elems_[ids[i]].properties
        r == _resolve_json_payload(fs, props.payload, props.payload_file)
    IN  IF r.exc # "none" THEN [exc |-> r.exc, fs |-> fs, elems |-> elems_]
        ELSE
        LET rewrite == props.worldgen_type = <<"p","l","a","c","e","d","_","f","e","a","t","u","r","e">>
                           /\ "feature" \in DOMAIN r.payload
            payload == IF rewrite
                       THEN [r.payload EXCEPT !["feature"] =
                                                  _WORLDGEN_FEATURE_ALIASES_get(@)]
                       ELSE r.payload
            stored == IF rewrite /\ r.shared
                      THEN [elems_ EXCEPT ![ids[i]].properties.payload = <<payload>>]
                      ELSE elems_
        IN  _write_worldgen_entries(
                Write(fs, ResourceFile("data/{ns}/worldgen/{name}.json", props.namespace,
                                       props.worldgen_type \o <<"/">> \o props.identifier),
                      [json |-> payload]),
                stored, ids, i + 1)

_write_readme(fs, mod) ==
    Write(fs, File("README.md", <<>>, <<>>),
          Template("README.md", <<Chars(mod.name), FabricKey, Chars(mod.mod_id)>>))

\* the root compile returns: output_dir / f"{mod.mod_id}-fabric-1.21.11"
Root(mod) == Chars(mod.mod_id) \o <<"-","f","a","b","r","i","c","-","1",".","2","1",".","1","1">>

\* compile removing the root again when _write_injected_java raises
compile_outcome_cleans(mod, elems_, injected, worldgen) ==
    IF injected.exc # "none"
    THEN [exc |-> injected.exc, fs |-> rmtree(injected.fs), elems |-> elems_]
    ELSE IF worldgen.exc # "none"
    THEN [exc |-> worldgen.exc, fs |-> worldgen.fs, elems |-> worldgen.elems]
    ELSE [exc |-> "none", fs |-> _write_readme(worldgen.fs, mod),
          elems |-> worldgen.elems]

\* How compile ends: with the exception of _write_injected_java or of the
\* data files, the files written until then left behind, or with the README
compile_outcome(mod, elems_, injected, worldgen) ==
    IF injected.exc # "none"
    THEN [exc |-> injected.exc, fs |-> injected.fs, elems |-> elems_]
    ELSE IF worldgen.exc # "none"
    THEN [exc |-> worldgen.exc, fs |-> worldgen.fs, elems |-> worldgen.elems]
    ELSE [exc |-> "none", fs |-> _write_readme(worldgen.fs, mod),
          elems |-> worldgen.elems]

\* Fabric12111Generator.compile: the root is removed, then every file is
\* written in the order of the code; an exception leaves what was written
\* before it.  No Command and no Biome is among the calls: _write_biomes
\* writes nothing.
compile(mod, elems_, files_) ==
    LET mod_id == Chars(mod.mod_id)
        package_name == <<"m","o","d","p","y",".","g","e","n","e","r","a","t","e","d",".">> \o _package_safe(mod_id, <<"g","e","n","e","r","a","t","e","d">>)
        main_class == _camel(mod_id) \o <<"M","o","d">>
        elements == [i \in 1..Len(mod.elements) |-> elems_[mod.elements[i]]]
        tabs == OfClass(elements, "FabricTab")
        items == OfClass(elements, "FabricItem")
        blocks == OfClass(elements, "FabricBlock")
        entities == OfClass(elements, "FabricEntity")
        injected == _write_injected_java(rmtree(files_), package_name,
                                         OfClass(elements, "FabricJavaSource"))
        has_client == injected.hooks[<<"c","l","i","e","n","t">>] # <<>>
        has_server == injected.hooks[<<"s","e","r","v","e","r">>] # <<>>
    IN  compile_outcome(mod, elems_, injected,
            Apply(Apply(Apply(Apply(Apply(Apply(Apply(Apply(Apply(
                injected,
                LAMBDA i : _write_gradle_files(i.fs, mod,
                               _package_safe(Chars(mod.author), <<"a","u","t","h","o","r">>))),
                LAMBDA a : _write_fabric_metadata(a, mod, package_name, main_class,
                                                  has_client, has_server)),
                LAMBDA b : _write_manifest(b, mod, elems_)),
                LAMBDA c : _write_java_files(c, package_name, mod, main_class, tabs, items,
                               blocks, entities, _commands_from_actions(mod.startup_actions),
                               injected.hooks, has_client, has_server)),
                LAMBDA d : _write_assets(d, mod_id, tabs, items, blocks, entities)),
                LAMBDA e : _write_recipes(e, mod_id, items, blocks,
                                          OfClass(elements, "FabricRecipe"))),
                LAMBDA f : _write_tags(f, mod_id, items, blocks, OfClass(elements, "FabricTag"))),
                LAMBDA g : _write_block_loot_tables(g, mod_id, blocks)),
                LAMBDA h : _write_worldgen_entries(h, elems_, mod.elements, 1)))

\* Mod.compile: the output directory is made, then the generator compiles
Mod_compile(mod, elems_, files_) ==
    IF mod._generator.cls = "Fabric12111Generator" THEN compile(mod, elems_, files_)
    ELSE IF mod._generator.cls = "NoItemGenerator"
    THEN [exc |-> "none",
          fs |-> Write(files_, File("demo-no-item-1.0.txt", <<>>, <<>>),
                       Template("demo-no-item-1.0.txt", <<Chars(mod.name)>>)),
          elems |-> elems_]
    ELSE [exc |-> "NotImplementedError", fs |-> files_, elems |-> elems_]

-----------------------------------------------------------------------------
(* The state machine: one action per call of the public API, and one per   *)
(* way a running handler ends.  A handler is user code: while it runs it   *)
(* may make any of the calls below, so every action stays enabled.         *)

Foo == <<"F","o","o">>

Replaces == BOOLEAN
LookupKeys == {FabricKey, DemoKey, MissingKey}
Authors == {"tester"}
Categories == {"Item", "Spell"}
NameInputs == {Foo}
EventInputs == {"Cast", "Drop", "Use"}
Commands == {"ping", "pong"}

RECURSIVE SumLen(_)
SumLen(lists) ==
    IF lists = <<>> THEN 0 ELSE Len(lists[1]) + SumLen(Tail(lists))

\* the action lists an element holds, over all its events
RECURSIVE EventLists(_, _)
EventLists(events, names) ==
    IF names = {} THEN <<>>
    ELSE LET n == CHOOSE x \in names : TRUE
         IN  events[n] \o EventLists(events, names \ {n})

ListsOf(e) == EventLists(e.events, DOMAIN e.events)

RECURSIVE AllLists(_)
AllLists(es) == IF es = <<>> THEN <<>> ELSE ListsOf(es[1]) \o AllLists(Tail(es))

RECURSIVE AllContexts(_)
AllContexts(ms) ==
    IF ms = <<>> THEN <<>>
    ELSE <<ms[1].startup_actions>> \o ms[1]._action_capture_stack \o AllContexts(Tail(ms))

RECURSIVE AllAdds(_)
AllAdds(ms) == IF ms = <<>> THEN 0 ELSE Len(ms[1].elements) + AllAdds(Tail(ms))

\* how many objects exist
Size ==
    Len(mods) + Len(elems) + AllAdds(mods)
        + Len(AllLists(elems)) + Len(frames)
        + SumLen(AllLists(elems)) + SumLen(AllContexts(mods))

Room == Size < MaxSize

\* What the caller of the last call saw: the exception it raised ("none" when
\* it returned) and the value it returned, in the field of its type (the
\* other fields hold the blanks below).
NoGenerator == [cls |-> "None", id |-> 0]
NoManifest ==
    [author |-> "", generator |-> <<>>, mod_id |-> "", name |-> "", version |-> "",
     startup_actions |-> <<>>, elements |-> <<>>]

Call(op, exc) ==
    [op |-> op, exc |-> exc, generator |-> NoGenerator, keys |-> <<>>,
     object |-> 0, manifest |-> NoManifest, path |-> <<>>, existed |-> FALSE,
     args |-> <<>>]

\* The files the user's calls name.  Two exist when the run starts and no
\* call of the API changes them: a texture and a Java source; the other
\* names are of no file.
RubyPng == <<"r","u","b","y",".","p","n","g">>
LostPng == <<"l","o","s","t",".","p","n","g">>
NoneText == <<"N","o","n","e">>
HookJava == <<"E","x","t","e","r","n","a","l","H","o","o","k",".","j","a","v","a">>
LostJava == <<"L","o","s","t",".","j","a","v","a">>

HookText ==
    [is_str |-> TRUE, empty |-> FALSE, package |-> None, class_name |-> <<"H","o","o","k">>]
ExternalHookText ==
    [is_str |-> TRUE, empty |-> FALSE, package |-> None, class_name |-> <<"E","x","t","e","r","n","a","l","H","o","o","k">>]

InputFiles ==
    [p \in {External(RubyPng), External(HookJava)} |->
        IF p = External(RubyPng) THEN [bytes |-> "PNG"] ELSE [text |-> ExternalHookText]]

\* A file an earlier compilation of another Mod left under the output root.
StalePng == File("src/main/resources/assets/{ns}/textures/item/{name}.png",
                 <<"e","x","a","m","p","l","e","m","o","d">>, <<"o","l","d">>)

StaleFiles == Write(InputFiles, StalePng, [bytes |-> "PNG"])

\* The calls mod.<Category>(**kw) of a run that declares an item, a block
\* and what refers to them.
ResourceCalls ==
    << [category |-> "Item",
        kw |-> [FabricItemDefaults EXCEPT !.name = <<"R","u","b","y">>, !.texture = LostPng,
                                          !.max_count = 0, !.durability = <<0>>]],
       [category |-> "Block",
        kw |-> [FabricBlockDefaults EXCEPT !.name = <<"R","u","b","y"," ","B","l","o","c","k">>, !.texture = RubyPng,
                                           !.luminance = -1]],
       [category |-> "Recipe",
        kw |-> [FabricRecipeDefaults EXCEPT
                   !.output = <<"m","i","n","e","c","r","a","f","t",":","s","t","i","c","k">>,
                   !.ingredients = <<<<"r","u","b","y">>, <<"R","u","b","y"," ","B","l","o","c","k">>, <<"M","i","n","e","c","r","a","f","t",":","S","t","i","c","k">>>>,
                   !.count = 0, !.cooking_time = 0]],
       [category |-> "Recipe", kw |-> FabricRecipeDefaults],
       [category |-> "Tag",
        kw |-> [FabricTagDefaults EXCEPT
                   !.identifier = <<"c",":","g","e","m","s">>,
                   !.values = <<<<"r","u","b","y">>, <<"r","u","b","y","_","b","l","o","c","k">>, <<"m","i","n","e","c","r","a","f","t",":","s","t","i","c","k">>>>]],
       [category |-> "Tag", kw |-> [FabricTagDefaults EXCEPT !.registry = <<"f","l","u","i","d">>]] >>

\* The calls of a run whose textures exist or not, and a worldgen entry.
AssetCalls ==
    << [category |-> "Item",
        kw |-> [FabricItemDefaults EXCEPT !.name = <<"R","u","b","y">>, !.texture = LostPng]],
       [category |-> "Item",
        kw |-> [FabricItemDefaults EXCEPT !.name = <<"G","e","m">>, !.texture = NoneText]],
       [category |-> "Block",
        kw |-> [FabricBlockDefaults EXCEPT !.name = <<"R","u","b","y"," ","B","l","o","c","k">>, !.texture = RubyPng]],
       [category |-> "Worldgen",
        kw |-> [FabricWorldgenDefaults EXCEPT
                   !.identifier = <<"o","r","e">>,
                   !.payload = <<[k \in {"feature"} |-> <<"m","i","n","e","c","r","a","f","t",":","o","r","e","_","d","i","a","m","o","n","d">>]>>]] >>

\* The calls mod.JavaSource(**kw) of a run that injects Java sources.
JavaCalls ==
    << [category |-> "JavaSource", kw |-> FabricJavaSourceDefaults],
       [category |-> "JavaSource",
        kw |-> [FabricJavaSourceDefaults EXCEPT !.source = HookText,
                                                !.source_file = HookJava]],
       [category |-> "JavaSource",
        kw |-> [FabricJavaSourceDefaults EXCEPT !.source = HookText,
                                                !.entrypoint = <<"C","l","i","e","n","t">>]],
       [category |-> "JavaSource",
        kw |-> [FabricJavaSourceDefaults EXCEPT !.source = HookText,
                                                !.entrypoint = <<"c","l","i","e","n","t">>,
                                                !.initialize = <<>>]],
       [category |-> "JavaSource",
        kw |-> [FabricJavaSourceDefaults EXCEPT !.source_file = HookJava,
                                                !.entrypoint = <<"s","e","r","v","e","r">>]],
       [category |-> "JavaSource",
        kw |-> [FabricJavaSourceDefaults EXCEPT !.source = EmptyText,
                                                !.source_file = LostJava]],
       [category |-> "JavaSource",
        kw |-> [FabricJavaSourceDefaults EXCEPT !.source = HookText,
                                                !.entrypoint = <<"b","o","t","h">>]],
       [category |-> "Spell", kw |-> [name |-> Foo]] >>

\* import modpy: generators/__init__.py registers the built-in generator
Init ==
    /\ _GENERATORS = register_generator(<<>>, Fabric1, TRUE).generators
    /\ mods = <<>>
    /\ elems = <<>>
    /\ frames = <<>>
    /\ declared = <<>>
    /\ files = InputFiles
    /\ ret = Call("import", "none")

RegisterGenerator(generator, replace) ==
    LET r == register_generator(_GENERATORS, generator, replace)
    IN  /\ _GENERATORS' = r.generators
        /\ ret' = Call("register_generator", r.exc)
        /\ UNCHANGED <<files, mods, elems, frames, declared>>

GetGenerator(k) ==
    LET r == get_generator(_GENERATORS, k)
    IN  /\ ret' = [Call("get_generator", r.exc) EXCEPT
                      !.generator = IF r.exc = "none" THEN r.value ELSE @]
        /\ UNCHANGED <<files, _GENERATORS, mods, elems, frames, declared>>

ListGenerators ==
    /\ ret' = [Call("list_generators", "none") EXCEPT
                  !.keys = list_generators(_GENERATORS)]
    /\ UNCHANGED <<files, _GENERATORS, mods, elems, frames, declared>>

\* Mod(author=..., generator=...), the other fields at their defaults
NewMod(author, generator) ==
    LET r == Mod__init__(_GENERATORS, author, generator,
                         "examplemod", "Example Mod", "0.1.0")
    IN  /\ Room
        /\ mods' = IF r.exc = "none" THEN Append(mods, r.value) ELSE mods
        /\ ret' = [Call("Mod", r.exc) EXCEPT
                      !.object = IF r.exc = "none" THEN Len(mods) + 1 ELSE @]
        /\ UNCHANGED <<files, _GENERATORS, elems, frames, declared>>

\* mod.<category>(name=...): Mod.__getattr__, then the class's constructor
Construct(m, category, name) ==
    LET r == Mod__getattr__(mods[m], category)
    IN  IF r.exc # "none"
        THEN /\ ret' = Call("construct", r.exc)
             /\ UNCHANGED <<files, _GENERATORS, mods, elems, frames, declared>>
        ELSE /\ Room
             /\ elems' = Append(elems, IF r.value = "Spell"
                                       THEN Spell(m, 1, name)
                                       ELSE FabricItem(m, None, name))
             /\ declared' = Append(declared, [category |-> category, name |-> name])
             /\ ret' = [Call("construct", "none") EXCEPT !.object = Len(elems) + 1]
             /\ UNCHANGED <<files, _GENERATORS, mods, frames>>

\* the constructor of a Fabric class, called by the factory
FabricConstructor(cls, m, mod, kw) ==
    CASE cls = "FabricTab" -> FabricTab__init__(m, kw)
      [] cls = "FabricEntity" -> FabricEntity__init__(m, kw)
      [] cls = "FabricItem" -> FabricItem__init__(m, kw)
      [] cls = "FabricBlock" -> FabricBlock__init__(m, kw)
      [] cls = "FabricRecipe" -> FabricRecipe__init__(m, kw)
      [] cls = "FabricTag" -> FabricTag__init__(m, Chars(mod.mod_id), kw)
      [] cls = "FabricJavaSource" -> FabricJavaSource__init__(m, kw)
      [] cls = "FabricWorldgen" -> FabricWorldgen__init__(m, Chars(mod.mod_id), kw)

\* mod.<category>(**kw) on the Fabric generator: Mod.__getattr__, then the
\* class's constructor, which may refuse its arguments
ConstructFabric(m, category, kw) ==
    LET r == Mod__getattr__(mods[m], category)
    IN  IF r.exc # "none"
        THEN /\ ret' = Call("construct", r.exc)
             /\ UNCHANGED <<files, _GENERATORS, mods, elems, frames, declared>>
        ELSE LET made == FabricConstructor(r.value, m, mods[m], kw)
             IN  IF made.exc # "none"
                 THEN /\ ret' = Call("construct", made.exc)
                      /\ UNCHANGED <<files, _GENERATORS, mods, elems, frames, declared>>
                 ELSE /\ Room
                      /\ Len(elems) < MaxDeclared
                      /\ elems' = Append(elems, made.value)
                      /\ declared' = Append(declared,
                                        [category |-> category,
                                         name |-> IF "name" \in DOMAIN kw
                                                  THEN kw.name ELSE None])
                      /\ ret' = [Call("construct", "none") EXCEPT
                                    !.object = Len(elems) + 1]
                      /\ UNCHANGED <<files, _GENERATORS, mods, frames>>

\* mod.compile(): the files the generator leaves, and the exception or the
\* root it returns; existed records root.exists() as compile found it
Compiled(m, r) ==
    /\ files' = r.fs
    /\ elems' = r.elems
    /\ ret' = [Call("compile", r.exc) EXCEPT
                  !.object = m,
                  !.path = IF r.exc = "none" THEN Root(mods[m]) ELSE @,
                  !.existed = \E p \in DOMAIN files : UnderRoot(p)]
    /\ UNCHANGED <<_GENERATORS, mods, frames, declared>>

Compile(m) == Compiled(m, Mod_compile(mods[m], elems, files))

\* @element.Event.<name> applied to a handler: the attribute lookup, then
\* decorator(func) up to the point where func starts running
RegisterEvent(e, name) ==
    LET r == Event__getattr__(elems[e], name)
        m == elems[e].mod
    IN  IF r.exc # "none"
        THEN /\ ret' = Call("Event", r.exc)
             /\ UNCHANGED <<files, _GENERATORS, mods, elems, frames, declared>>
        ELSE /\ Room
             /\ mods' = [mods EXCEPT ![m] = capture_enter(@)]
             /\ frames' = Append(frames, [element |-> e, name |-> name,
                                          saved |-> mods[m]._action_capture_stack])
             /\ ret' = Call("handler", "none")
             /\ UNCHANGED <<files, _GENERATORS, elems, declared>>

\* the innermost running handler returns: _run_action_capture pops and returns
\* the list, the decorator appends it to the event
HandlerReturn ==
    /\ frames # <<>>
    /\ LET top == frames[Len(frames)]
           m == elems[top.element].mod
           actions == captured(mods[m])
       IN  /\ mods' = [mods EXCEPT ![m] = capture_exit(@, FALSE)]
           /\ elems' = [elems EXCEPT ![top.element].events =
                                         events_append(@, top.name, actions)]
           /\ ret' = Call("register_event", "none")
    /\ frames' = SubSeq(frames, 1, Len(frames) - 1)
    /\ UNCHANGED <<files, _GENERATORS, declared>>

\* the innermost running handler raises: _run_action_capture pops and the
\* exception leaves the decorator before the append
HandlerRaise ==
    /\ frames # <<>>
    /\ LET top == frames[Len(frames)]
           m == elems[top.element].mod
       IN  /\ mods' = [mods EXCEPT ![m] = capture_exit(@, TRUE)]
           /\ ret' = Call("register_event", "HandlerError")
    /\ frames' = SubSeq(frames, 1, Len(frames) - 1)
    /\ UNCHANGED <<files, _GENERATORS, elems, declared>>

SendConsole(m, command) ==
    /\ Room
    /\ mods' = [mods EXCEPT ![m] = sendConsole(@, command)]
    /\ ret' = Call("sendConsole", "none")
    /\ UNCHANGED <<files, _GENERATORS, elems, frames, declared>>

Add(m, e) ==
    /\ Room
    /\ mods' = [mods EXCEPT ![m] = add(@, e)]
    /\ ret' = [Call("add", "none") EXCEPT !.object = e]
    /\ UNCHANGED <<files, _GENERATORS, elems, frames, declared>>

ToManifest(m) ==
    /\ ret' = [Call("to_manifest", "none") EXCEPT
                  !.manifest = to_manifest(mods[m], elems)]
    /\ UNCHANGED <<files, _GENERATORS, mods, elems, frames, declared>>

\* The element and capture API, on the registry as the tests set it up
\* (tests/test_custom.py registers its generator with replace=True).
Next ==
    \/ \E g \in {Demo1}, replace \in {TRUE} : RegisterGenerator(g, replace)
    \/ \E a \in Authors, k \in {FabricKey, DemoKey} : NewMod(a, k)
    \/ \E m \in 1..Len(mods), c \in Categories, n \in NameInputs : Construct(m, c, n)
    \/ \E e \in 1..Len(elems), n \in EventInputs : RegisterEvent(e, n)
    \/ HandlerReturn
    \/ HandlerRaise
    \/ \E m \in 1..Len(mods), c \in Commands : SendConsole(m, c)
    \/ \E m \in 1..Len(mods), e \in 1..Len(elems) : Add(m, e)
    \/ \E m \in 1..Len(mods) : ToManifest(m)

Spec == Init /\ [][Next]_vars

\* The registry API: every generator object, registered with and without
\* replace, looked up, listed and bound to Mods.
NextRegistry ==
    \/ \E g \in GeneratorObjects, replace \in Replaces : RegisterGenerator(g, replace)
    \/ \E k \in LookupKeys : GetGenerator(k)
    \/ ListGenerators
    \/ \E a \in Authors, k \in LookupKeys : NewMod(a, k)

SpecRegistry == Init /\ [][NextRegistry]_vars

\* import modpy and mod = Mod(author="tester"), with or without the tree of
\* an earlier compilation at the output root
InitFabric ==
    /\ _GENERATORS = register_generator(<<>>, Fabric1, TRUE).generators
    /\ mods = <<Mod__init__(_GENERATORS, "tester", FabricKey, "examplemod",
                            "Example Mod", "0.1.0").value>>
    /\ elems = <<>>
    /\ frames = <<>>
    /\ declared = <<>>
    /\ files \in {InputFiles, StaleFiles}
    /\ ret = [Call("Mod", "none") EXCEPT !.object = 1]

\* A script on the Fabric generator: the elements of a tuple of calls, add
\* and compile.
NextFabric(calls) ==
    \/ \E m \in 1..Len(mods), i \in 1..Len(calls) :
          ConstructFabric(m, calls[i].category, calls[i].kw)
    \/ \E m \in 1..Len(mods), e \in 1..Len(elems) : Add(m, e)
    \/ \E m \in 1..Len(mods) : Compile(m)

NextResources == NextFabric(ResourceCalls)

SpecResources == InitFabric /\ [][NextResources]_vars

NextAssets == NextFabric(AssetCalls)

SpecAssets == InitFabric /\ [][NextAssets]_vars

NextJava == NextFabric(JavaCalls)

SpecJava == InitFabric /\ [][NextJava]_vars

\* The calls of a run whose elements share names, constants and files: an
\* item and a block of the same name, a tab whose icon is that name, an item
\* whose name is what a tab's literal icon normalizes to, two items whose
\* names differ in one separator, an entity with a spawn egg, a tag that
\* refers to the shared name and a Java class named as a generated class.
Ruby == <<"r","u","b","y">>
MinecraftStick == <<"m","i","n","e","c","r","a","f","t",":","s","t","i","c","k">>

SymbolCalls ==
    << [category |-> "Item", kw |-> [FabricItemDefaults EXCEPT !.name = <<"R","u","b","y">>]],
       [category |-> "Block", kw |-> [FabricBlockDefaults EXCEPT !.name = Ruby]],
       [category |-> "Tab",
        kw |-> [FabricTabDefaults EXCEPT !.name = <<"G","e","m","s">>, !.icon = <<"R","u","b","y">>]],
       [category |-> "Item",
        kw |-> [FabricItemDefaults EXCEPT !.name = <<"M","i","n","e","c","r","a","f","t"," ","S","t","i","c","k">>]],
       [category |-> "Tab",
        kw |-> [FabricTabDefaults EXCEPT !.name = <<"T","o","o","l","s">>, !.icon = MinecraftStick]],
       [category |-> "Item",
        kw |-> [FabricItemDefaults EXCEPT !.name = <<"m","i","n","e","c","r","a","f","t",".","s","t","i","c","k">>]],
       [category |-> "Entity",
        kw |-> [FabricEntityDefaults EXCEPT !.name = <<"R","u","b","y">>,
                                            !.spawn_egg_primary = <<255>>]],
       [category |-> "Tag",
        kw |-> [FabricTagDefaults EXCEPT !.identifier = <<"g","e","m","s">>,
                                         !.values = <<<<"R","u","b","y">>>>]],
       [category |-> "JavaSource",
        kw |-> [FabricJavaSourceDefaults EXCEPT
                   !.source = HookText,
                   !.class_name = <<"G","e","n","e","r","a","t","e","d","I","t","e","m","s">>]] >>

\* a script makes at most MaxCalls of the calls
MaxCalls == 4

\* the calls of a script that makes some of the calls, in their order
Picked(calls, chosen) ==
    LET positions == SelectSeq([i \in 1..Len(calls) |-> i], LAMBDA i : i \in chosen)
    IN  [k \in 1..Len(positions) |-> calls[positions[k]]]

\* import modpy, mod = Mod(author="tester"), and for each call of the script
\* mod.add(mod.<Category>(**kw)); every call of the scripts returns
InitScript(calls) ==
    /\ _GENERATORS = register_generator(<<>>, Fabric1, TRUE).generators
    /\ frames = <<>>
    /\ files = InputFiles
    /\ \E chosen \in {c \in SUBSET (1..Len(calls)) : Cardinality(c) <= MaxCalls} :
          LET script == Picked(calls, chosen)
              mod == Mod__init__(_GENERATORS, "tester", FabricKey, "examplemod",
                                 "Example Mod", "0.1.0").value
          IN  /\ elems = [k \in 1..Len(script) |->
                             FabricConstructor(Mod__getattr__(mod, script[k].category).value,
                                               1, mod, script[k].kw).value]
              /\ declared = [k \in 1..Len(script) |->
                                [category |-> script[k].category,
                                 name |-> IF "name" \in DOMAIN script[k].kw
                                          THEN script[k].kw.name ELSE None]]
              /\ mods = <<[mod EXCEPT !.elements = [k \in 1..Len(script) |-> k]]>>
              /\ ret = IF script = <<>> THEN [Call("Mod", "none") EXCEPT !.object = 1]
                       ELSE [Call("add", "none") EXCEPT !.object = Len(script)]

InitSymbols == InitScript(SymbolCalls)

\* the script compiles
NextSymbols == \E m \in 1..Len(mods) : Compile(m)

SpecSymbols == InitSymbols /\ [][NextSymbols]_vars

\* A script that registers instances of the test generator with replace=True
\* between the constructions, the category lookups and the compilations of
\* its Mods.
NextRebind ==
    \/ \E g \in {Demo1, Demo2} : RegisterGenerator(g, TRUE)
    \/ \E a \in Authors : NewMod(a, DemoKey)
    \/ \E m \in 1..Len(mods), c \in Categories, n \in NameInputs : Construct(m, c, n)
    \/ \E m \in 1..Len(mods) : Compile(m)

SpecRebind == Init /\ [][NextRebind]_vars

\* The texts given to _normalize_id_path: every text of at most MaxLen
\* characters over an upper-case and a lower-case letter, a space, a tab, an
\* underscore, a hyphen and a character outside the identifier alphabet, and
\* None; the fallbacks are those of the callers.
MaxLen == 4
NormalizeAlphabet == {"A", "b", " ", "\t", "_", "-", "!"}
NormalizeInputs == {None} \cup UNION {[1..n -> NormalizeAlphabet] : n \in 0..MaxLen}
Fallbacks == {<<"i","t","e","m">>, <<"t","a","b">>, <<>>}

\* a caller about to pass value and fallback to _normalize_id_path
InitNormalize ==
    /\ _GENERATORS = register_generator(<<>>, Fabric1, TRUE).generators
    /\ mods = <<>>
    /\ elems = <<>>
    /\ frames = <<>>
    /\ declared = <<>>
    /\ files = InputFiles
    /\ \E value \in NormalizeInputs, fallback \in Fallbacks :
          ret = [Call("import", "none") EXCEPT !.args = <<value, fallback>>]

\* _normalize_id_path(value, fallback) returns
NormalizeIdPath ==
    /\ ret.op = "import"
    /\ ret' = [Call("_normalize_id_path", "none") EXCEPT
                  !.args = ret.args,
                  !.path = _normalize_id_path(ret.args[1], ret.args[2])]
    /\ UNCHANGED <<files, _GENERATORS, mods, elems, frames, declared>>

NextNormalize == NormalizeIdPath

SpecNormalize == InitNormalize /\ [][NextNormalize]_vars

-----------------------------------------------------------------------------
(* The registry (SpecRegistry).                                            *)

\* C1: registering a generator with replace=False under a key that is
\* already registered raises KeyError and leaves the registry unchanged: the
\* lookup of that key still returns the instance registered before, and the
\* listing is the same.
C1_DuplicateKeyRejected ==
    [][\A g \in GeneratorObjects :
          (key(g) \in DOMAIN _GENERATORS /\ RegisterGenerator(g, FALSE))
              => /\ ret'.op = "register_generator"
                 /\ ret'.exc = "KeyError"
                 /\ _GENERATORS' = _GENERATORS
                 /\ get_generator(_GENERATORS', key(g)).exc = "none"
                 /\ get_generator(_GENERATORS', key(g)).value = _GENERATORS[key(g)]
                 /\ list_generators(_GENERATORS') = list_generators(_GENERATORS)]_vars

\* a duplicate registration of the test generator's key has just been refused
C1_Witness ==
    /\ ret.op = "register_generator"
    /\ ret.exc = "KeyError"
    /\ DemoKey \in DOMAIN _GENERATORS

\* C2: registering a generator with a non-empty key and replace=True succeeds
\* whether or not the key is registered; from then on the lookup of the key
\* returns that instance, until another registration under the key succeeds.
C2_ReplaceTakesEffect ==
    [][/\ \A g \in GeneratorObjects :
             (key(g) # <<>> /\ RegisterGenerator(g, TRUE))
                 => /\ ret'.exc = "none"
                    /\ get_generator(_GENERATORS', key(g)).exc = "none"
                    /\ get_generator(_GENERATORS', key(g)).value = g
       /\ \A k \in DOMAIN _GENERATORS :
             \/ /\ get_generator(_GENERATORS', k).exc = "none"
                /\ get_generator(_GENERATORS', k).value = _GENERATORS[k]
             \/ /\ ret'.op = "register_generator"
                /\ ret'.exc = "none"
                /\ \E g \in GeneratorObjects, replace \in Replaces :
                      key(g) = k /\ RegisterGenerator(g, replace)
       /\ \A k \in LookupKeys :
             (k \in DOMAIN _GENERATORS /\ GetGenerator(k))
                 => ret'.exc = "none" /\ ret'.generator = _GENERATORS[k]]_vars

\* the test generator's key has been re-registered over an instance that a
\* Mod constructed earlier still holds
C2_Witness ==
    /\ ret.op = "register_generator"
    /\ ret.exc = "none"
    /\ \E m \in 1..Len(mods) :
          /\ mods[m].generator = DemoKey
          /\ mods[m]._generator # _GENERATORS[DemoKey]

\* C3: looking up a key that is not registered raises KeyError, from
\* get_generator and from the Mod constructor alike; the failed constructor
\* yields no Mod, and neither call changes the registry.
C3_UnknownKeyRaises ==
    [][\A k \in LookupKeys :
          k \notin DOMAIN _GENERATORS
              => /\ GetGenerator(k)
                     => /\ ret'.exc = "KeyError"
                        /\ _GENERATORS' = _GENERATORS
                 /\ \A a \in Authors :
                       NewMod(a, k)
                           => /\ ret'.exc = "KeyError"
                              /\ ret'.object = 0
                              /\ mods' = mods
                              /\ _GENERATORS' = _GENERATORS]_vars

\* a Mod constructor has just raised for an unknown key
C3_Witness ==
    /\ ret.op = "Mod"
    /\ ret.exc = "KeyError"

-----------------------------------------------------------------------------
(* Action capture, events and the element list (Spec).                     *)

Owner(e) == elems[e].mod
Stack(m) == mods[m]._action_capture_stack
Top == frames[Len(frames)]
Min(a, b) == IF a < b THEN a ELSE b

\* C4: sendConsole(c) on a Mod with a capture context active appends the
\* console action to the innermost context only (outer contexts and
\* startup_actions stay as they were); with no context active it appends the
\* action to startup_actions only.
C4_SendConsoleTarget ==
    [][\A m \in 1..Len(mods), c \in Commands :
          SendConsole(m, c)
              => IF Stack(m) # <<>>
                 THEN /\ mods'[m]._action_capture_stack =
                            [Stack(m) EXCEPT ![Len(Stack(m))] =
                                                 Append(@, ConsoleAction(c))]
                      /\ mods'[m].startup_actions = mods[m].startup_actions
                 ELSE /\ mods'[m].startup_actions =
                            Append(mods[m].startup_actions, ConsoleAction(c))
                      /\ mods'[m]._action_capture_stack = <<>>]_vars

\* a call made inside a nested capture has just been recorded in the inner
\* context
C4_Witness ==
    /\ ret.op = "sendConsole"
    /\ \E m \in 1..Len(mods) :
          /\ Len(Stack(m)) >= 2
          /\ Stack(m)[Len(Stack(m))] # <<>>

\* C5: _run_action_capture pushes one new empty context and pops it again,
\* after a normal return and after an exception alike: the Mod's capture
\* stack after the call is the stack before it, a Mod's stack is as deep as
\* the captures running on it (empty when none is), and a handler's
\* exception reaches the caller once the context is popped.
C5_CaptureStackRestored ==
    /\ [](\A m \in 1..Len(mods) :
             Len(Stack(m)) = Cardinality({i \in 1..Len(frames) :
                                             Owner(frames[i].element) = m}))
    /\ [][/\ \A e \in 1..Len(elems), n \in EventInputs :
                (RegisterEvent(e, n) /\ ret'.op = "handler")
                    => mods'[Owner(e)]._action_capture_stack
                           = Append(Stack(Owner(e)), <<>>)
          /\ (HandlerReturn \/ HandlerRaise)
                => mods'[Owner(Top.element)]._action_capture_stack = Top.saved
          /\ HandlerRaise => ret'.exc = "HandlerError"]_vars

\* a handler of a nested registration has just raised while the outer handler
\* is still running
C5_Witness ==
    /\ ret.op = "register_event"
    /\ ret.exc = "HandlerError"
    /\ frames # <<>>

\* C6: action lists only grow at the end, one entry per sendConsole call: a
\* context being recorded and startup_actions change by nothing but the
\* append of the action of a call, the list a registration stores is the
\* context as recorded, and stored lists never change; so every list holds
\* its calls in call order.
C6_ActionsInCallOrder ==
    [][/\ \A m \in 1..Len(mods) :
             /\ \/ mods'[m].startup_actions = mods[m].startup_actions
                \/ \E c \in Commands :
                      /\ SendConsole(m, c)
                      /\ Stack(m) = <<>>
                      /\ mods'[m].startup_actions =
                             Append(mods[m].startup_actions, ConsoleAction(c))
             /\ \A i \in 1..Min(Len(Stack(m)), Len(mods'[m]._action_capture_stack)) :
                   \/ mods'[m]._action_capture_stack[i] = Stack(m)[i]
                   \/ \E c \in Commands :
                         /\ SendConsole(m, c)
                         /\ i = Len(Stack(m))
                         /\ mods'[m]._action_capture_stack[i] =
                                Append(Stack(m)[i], ConsoleAction(c))
       /\ HandlerReturn
             => LET stored == elems'[Top.element].events[Top.name]
                IN  stored[Len(stored)] = captured(mods[Owner(Top.element)])
       /\ \A e \in 1..Len(elems) :
             \A n \in DOMAIN elems[e].events :
                \A j \in 1..Len(elems[e].events[n]) :
                   /\ n \in DOMAIN elems'[e].events
                   /\ j <= Len(elems'[e].events[n])
                   /\ elems'[e].events[n][j] = elems[e].events[n][j]]_vars

\* a handler that called sendConsole("ping") and then sendConsole("pong") has
\* been registered
C6_Witness ==
    /\ ret.op = "register_event"
    /\ ret.exc = "none"
    /\ \E e \in 1..Len(elems) :
          \E n \in DOMAIN elems[e].events :
             \E j \in 1..Len(elems[e].events[n]) :
                elems[e].events[n][j] = <<ConsoleAction("ping"), ConsoleAction("pong")>>

\* C7: registering a handler under a name that is not in the element class's
\* EVENT_NAMES raises AttributeError; the handler is not invoked, and the
\* elements' events and the Mods (capture stack, startup_actions) are
\* unchanged.
C7_UnknownEventRejected ==
    [][\A e \in 1..Len(elems), n \in EventInputs :
          (n \notin Range(EVENT_NAMES(elems[e].cls)) /\ RegisterEvent(e, n))
              => /\ ret'.op = "Event"
                 /\ ret'.exc = "AttributeError"
                 /\ frames' = frames
                 /\ elems' = elems
                 /\ mods' = mods]_vars

\* an event name of another class has just been refused on an element that
\* holds a registration of its own
C7_Witness ==
    /\ ret.op = "Event"
    /\ ret.exc = "AttributeError"
    /\ \E e \in 1..Len(elems) : DOMAIN elems[e].events # {}

\* C8: registering a handler under an allowed name invokes the handler once,
\* under a new capture context, and when it returns appends one action list
\* to the end of that event's list; the element's other events and the other
\* elements are unchanged, and no other step changes any event list.
C8_RegistrationAppendsOneList ==
    [][/\ \A e \in 1..Len(elems), n \in EventInputs :
             (n \in Range(EVENT_NAMES(elems[e].cls)) /\ RegisterEvent(e, n))
                 => /\ frames' = Append(frames, [element |-> e, name |-> n,
                                                 saved |-> Stack(Owner(e))])
                    /\ mods'[Owner(e)]._action_capture_stack
                           = Append(Stack(Owner(e)), <<>>)
                    /\ elems' = elems
       /\ HandlerReturn
             => LET e == Top.element
                    n == Top.name
                    old == IF n \in DOMAIN elems[e].events
                           THEN elems[e].events[n] ELSE <<>>
                IN  /\ Len(elems') = Len(elems)
                    /\ DOMAIN elems'[e].events = DOMAIN elems[e].events \cup {n}
                    /\ elems'[e].events[n] = Append(old, captured(mods[Owner(e)]))
                    /\ \A n2 \in DOMAIN elems[e].events \ {n} :
                          elems'[e].events[n2] = elems[e].events[n2]
                    /\ \A e2 \in (1..Len(elems)) \ {e} : elems'[e2] = elems[e2]
       /\ ~HandlerReturn
             => \A e \in 1..Len(elems) : elems'[e].events = elems[e].events]_vars

\* a second handler has just been registered under the same event, with a
\* different action list than the first
C8_Witness ==
    /\ ret.op = "register_event"
    /\ ret.exc = "none"
    /\ \E e \in 1..Len(elems) :
          \E n \in DOMAIN elems[e].events :
             /\ Len(elems[e].events[n]) = 2
             /\ elems[e].events[n][1] # elems[e].events[n][2]

\* C9: a Mod's element list starts empty and changes only by add, which
\* appends its argument (again when it is already there) and returns it;
\* constructing an element leaves the list alone; to_manifest lists the
\* serialization of the elements in the order of the list.
C9_ElementsAreAddCalls ==
    [][/\ \A m \in 1..Len(mods), e \in 1..Len(elems) :
             Add(m, e)
                 => /\ mods'[m].elements = Append(mods[m].elements, e)
                    /\ ret'.object = e
       /\ \A m \in 1..Len(mods) :
             \/ mods'[m].elements = mods[m].elements
             \/ \E e \in 1..Len(elems) : Add(m, e)
       /\ Len(mods') > Len(mods) => mods'[Len(mods')].elements = <<>>
       /\ \A m \in 1..Len(mods) :
             ToManifest(m)
                 => ret'.manifest.elements =
                        [i \in 1..Len(mods[m].elements) |->
                            to_dict(elems[mods[m].elements[i]])]]_vars

\* the same element has just been added a second time
C9_Witness ==
    /\ ret.op = "add"
    /\ \E m \in 1..Len(mods) :
          /\ Len(mods[m].elements) = 2
          /\ mods[m].elements[1] = mods[m].elements[2]

\* The scenario of C10 on Mod m and element e: the generator of m exposes the
\* test category Spell (the repository's category built on the base
\* constructor, standing for Widget), e is the one element declared on m,
\* constructed with name="Foo", and one Cast handler that sends "ping" has
\* been registered on it.
C10_Scenario(m, e) ==
    /\ "Spell" \in DOMAIN element_types(mods[m]._generator)
    /\ Owner(e) = m
    /\ declared[e] = [category |-> "Spell", name |-> Foo]
    /\ \A e2 \in (1..Len(elems)) \ {e} : Owner(e2) # m
    /\ frames = <<>>
    /\ DOMAIN elems[e].events = {"Cast"}
    /\ elems[e].events["Cast"] = <<<<ConsoleAction("ping")>>>>

\* C10 as stated: in the scenario, to_manifest holds exactly one element, of
\* the category's kind and with the normalized name "foo", whose Cast event
\* is [[ping]].
C10_Original ==
    \A m \in 1..Len(mods), e \in 1..Len(elems) :
       C10_Scenario(m, e)
           => LET manifest == to_manifest(mods[m], elems)
              IN  /\ Len(manifest.elements) = 1
                  /\ manifest.elements[1].kind = KIND("Spell")
                  /\ manifest.elements[1].name = <<"f","o","o">>
                  /\ manifest.elements[1].events["Cast"] = <<<<ConsoleAction("ping")>>>>

\* C10, amended: in the scenario, once the element has been added (once, and
\* nothing else), to_manifest holds exactly one element, of the category's
\* kind and with the name as given, "Foo", whose events are Cast: [[ping]].
C10_ManifestOfAddedElement ==
    \A m \in 1..Len(mods), e \in 1..Len(elems) :
       (C10_Scenario(m, e) /\ mods[m].elements = <<e>>)
           => LET manifest == to_manifest(mods[m], elems)
              IN  /\ Len(manifest.elements) = 1
                  /\ manifest.elements[1].kind = KIND("Spell")
                  /\ manifest.elements[1].name = Foo
                  /\ DOMAIN manifest.elements[1].events = {"Cast"}
                  /\ manifest.elements[1].events["Cast"] = <<<<ConsoleAction("ping")>>>>

\* to_manifest has just been called in the scenario, with the element added
C10_Witness ==
    /\ ret.op = "to_manifest"
    /\ \E m \in 1..Len(mods), e \in 1..Len(elems) :
          /\ C10_Scenario(m, e)
          /\ mods[m].elements = <<e>>
          /\ ret.manifest = to_manifest(mods[m], elems)

-----------------------------------------------------------------------------
(* Element factories (Spec).                                               *)

\* C11: on a Mod bound to generator G, mod.<Name>(...) raises AttributeError
\* when Name is not a key of G.element_types, and no element is made;
\* otherwise it makes one new element of the class G.element_types[Name]
\* whose owner is this Mod, whichever other Mods are bound to G.
C11_FactoryOfBoundGenerator ==
    [][\A m \in 1..Len(mods), c \in Categories, n \in NameInputs :
          Construct(m, c, n)
              => LET types == element_types(mods[m]._generator)
                 IN  IF c \notin DOMAIN types
                     THEN /\ ret'.exc = "AttributeError"
                          /\ ret'.object = 0
                          /\ elems' = elems
                     ELSE /\ ret'.exc = "none"
                          /\ Len(elems') = Len(elems) + 1
                          /\ ret'.object = Len(elems')
                          /\ elems'[Len(elems')].cls = types[c]
                          /\ elems'[Len(elems')].mod = m
                          /\ \A e \in 1..Len(elems) : elems'[e] = elems[e]]_vars

\* an element has just been made on the second of two Mods bound to the same
\* generator instance, after the first Mod made one of its own
C11_Witness ==
    /\ ret.op = "construct"
    /\ ret.exc = "none"
    /\ Len(mods) = 2
    /\ mods[1]._generator = mods[2]._generator
    /\ Len(elems) = 2
    /\ elems[1].mod = 1
    /\ elems[2].mod = 2

-----------------------------------------------------------------------------
(* The registry, continued (SpecRegistry).                                 *)

\* C19: list_generators() returns the registered keys in ascending
\* lexicographic order, each once; the keys are those of the registrations
\* that succeeded (a step adds the key of a successful registration and
\* nothing else, and removes none), so the built-in key registered at import
\* is listed in every state.
C19_ListIsSortedKeys ==
    /\ [](LET keys == list_generators(_GENERATORS)
          IN  /\ Range(keys) = DOMAIN _GENERATORS
              /\ \A i, j \in 1..Len(keys) : i < j => StrLess(keys[i], keys[j])
              /\ FabricKey \in Range(keys))
    /\ [][/\ ListGenerators => ret'.keys = list_generators(_GENERATORS)
          /\ \/ DOMAIN _GENERATORS' = DOMAIN _GENERATORS
             \/ \E g \in GeneratorObjects, replace \in Replaces :
                   /\ RegisterGenerator(g, replace)
                   /\ ret'.exc = "none"
                   /\ DOMAIN _GENERATORS' = DOMAIN _GENERATORS \cup {key(g)}
          /\ \A g \in GeneratorObjects, replace \in Replaces :
                (RegisterGenerator(g, replace) /\ ret'.exc = "none")
                    => key(g) \in Range(list_generators(_GENERATORS'))]_vars

\* the listing has just returned the test generator's key, registered after
\* import, ahead of the built-in key
C19_Witness ==
    /\ ret.op = "list_generators"
    /\ ret.keys = <<DemoKey, FabricKey>>

\* C20: registering a generator whose key is empty raises ValueError, with
\* replace=False and with replace=True, and leaves the registry unchanged.
C20_EmptyKeyRejected ==
    [][\A g \in GeneratorObjects, replace \in Replaces :
          (key(g) = <<>> /\ RegisterGenerator(g, replace))
              => /\ ret'.op = "register_generator"
                 /\ ret'.exc = "ValueError"
                 /\ _GENERATORS' = _GENERATORS
                 /\ <<>> \notin DOMAIN _GENERATORS']_vars

\* a generator with the empty key has just been refused by a registry that
\* holds the test generator's key besides the built-in one
C20_Witness ==
    /\ ret.op = "register_generator"
    /\ ret.exc = "ValueError"
    /\ DOMAIN _GENERATORS = {FabricKey, DemoKey}

-----------------------------------------------------------------------------
(* Compiling on the Fabric generator (SpecJava, SpecResources, SpecAssets). *)

\* C12: after a successful compile the tree under the root is the tree the
\* same Mod yields into a root that did not exist, whatever the root held
\* before, and compiling the Mod again leaves every file as it is.
C12_TreeIndependentOfRoot ==
    (ret.op = "compile" /\ ret.exc = "none") =>
        LET mod == mods[ret.object]
        IN  /\ Tree(files) = Tree(Mod_compile(mod, elems, InputFiles).fs)
            /\ Mod_compile(mod, elems, files).fs = files

C12_Witness ==
    /\ ret.op = "compile" /\ ret.exc = "none" /\ ret.existed
    /\ mods[ret.object].elements # <<>>
    /\ ~IsFile(files, StalePng)

\* The elements of a class the Mod holds (added with add), in order.
AddedOf(mod, cls) ==
    OfClass([i \in 1..Len(mod.elements) |-> elems[mod.elements[i]]], cls)

CompiledOk == ret.op = "compile" /\ ret.exc = "none"

\* What the claim says a cross-reference value is emitted as.
C13_Emitted(value, mod) ==
    LET normalized == _normalize_id_path(value, <<"g","e","n","e","r","a","t","e","d">>)
    IN  IF _is_literal_identifier(value) THEN value
        ELSE IF normalized \in Names(AddedOf(mod, "FabricItem"))
                   \cup Names(AddedOf(mod, "FabricBlock"))
        THEN Chars(mod.mod_id) \o <<":">> \o normalized
        ELSE <<"m","i","n","e","c","r","a","f","t",":">> \o normalized

\* C13: in the files of a successful compile, every output and ingredient of
\* an added (shapeless) recipe and every value of an added tag is the value
\* itself when it is a namespace:path literal, <mod_id>:<normalized> when its
\* normalized path is the name of an added item or block, and
\* minecraft:<normalized> otherwise.
C13_ReferencesResolved ==
    CompiledOk =>
        LET mod == mods[ret.object]
            recipes == AddedOf(mod, "FabricRecipe")
            tags == AddedOf(mod, "FabricTag")
        IN  /\ \A i \in 1..Len(recipes) :
                  \E p \in DOMAIN files :
                     /\ p.dir = "src/main/resources/data/{ns}/recipes/{name}.json"
                     /\ p.name = recipes[i].name
                     /\ files[p].result.item
                            = C13_Emitted(recipes[i].properties.output, mod)
                     /\ files[p].ingredients
                            = [k \in 1..Len(recipes[i].properties.ingredients) |->
                                  C13_Emitted(recipes[i].properties.ingredients[k], mod)]
            /\ \A i \in 1..Len(tags) :
                  \E p \in DOMAIN files :
                     /\ p.dir = "src/main/resources/data/{ns}/tags/items/{name}.json"
                     /\ p.name = tags[i].properties.identifier
                     /\ files[p].values
                            = [k \in 1..Len(tags[i].properties.values) |->
                                  C13_Emitted(tags[i].properties.values[k], mod)]

C13_Witness ==
    /\ CompiledOk
    /\ <<"r","u","b","y">> \in Names(AddedOf(mods[ret.object], "FabricItem"))
    /\ \E p \in DOMAIN files :
          /\ p.dir = "src/main/resources/data/{ns}/recipes/{name}.json"
          /\ files[p].result.item = <<"m","i","n","e","c","r","a","f","t",":","s","t","i","c","k">>
          /\ files[p].ingredients
                = <<<<"e","x","a","m","p","l","e","m","o","d",":","r","u","b","y">>, <<"m","i","n","e","c","r","a","f","t",":","r","u","b","y","_","b","l","o","c","k">>,
                    <<"m","i","n","e","c","r","a","f","t",":","m","i","n","e","c","r","a","f","t","_","s","t","i","c","k">>>>

\* C14: a call of compile, returning or raising, leaves the Mods (identity
\* fields, element list, startup_actions, capture stack), every element
\* (properties and events) and the open captures as they were; the alias
\* minecraft:ore_diamond -> minecraft:ore_diamond_small is in the written
\* file only.
C14_CompileLeavesMod ==
    [][ret'.op = "compile" => mods' = mods /\ elems' = elems /\ frames' = frames]_vars

C14_Witness ==
    /\ CompiledOk
    /\ \E i \in 1..Len(mods[ret.object].elements) :
          LET element == elems[mods[ret.object].elements[i]]
          IN  /\ element.cls = "FabricWorldgen"
              /\ element.properties.payload[1]["feature"] = <<"m","i","n","e","c","r","a","f","t",":","o","r","e","_","d","i","a","m","o","n","d">>
              /\ \E p \in DOMAIN files :
                    /\ p.dir = "src/main/resources/data/{ns}/worldgen/{name}.json"
                    /\ p.name = <<"p","l","a","c","e","d","_","f","e","a","t","u","r","e","/","o","r","e">>
                    /\ files[p].json["feature"] = <<"m","i","n","e","c","r","a","f","t",":","o","r","e","_","d","i","a","m","o","n","d","_","s","m","a","l","l">>

\* C15: mod.JavaSource(...) with neither source nor source_file (None or
\* empty), or with both, raises ValueError and makes no element; with
\* exactly one of them (and an entrypoint of none, main, client, server) it
\* returns a new JavaSource element.
C15_ExactlyOneSource ==
    [][\A m \in 1..Len(mods), i \in 1..Len(JavaCalls) :
          (/\ JavaCalls[i].category = "JavaSource"
           /\ ConstructFabric(m, "JavaSource", JavaCalls[i].kw)) =>
             LET kw == JavaCalls[i].kw
             IN  IF TextTruthy(kw.source) = Truthy(kw.source_file)
                 THEN ret'.exc = "ValueError" /\ elems' = elems
                 ELSE Strip(Lower(kw.entrypoint), Whitespace)
                          \in {<<"n","o","n","e">>, <<"m","a","i","n">>, <<"c","l","i","e","n","t">>, <<"s","e","r","v","e","r">>}
                      => /\ ret'.exc = "none"
                         /\ Len(elems') = Len(elems) + 1
                         /\ SubSeq(elems', 1, Len(elems)) = elems
                         /\ elems'[ret'.object].cls = "FabricJavaSource"]_vars

C15_Witness ==
    /\ ret.op = "construct" /\ ret.exc = "ValueError"
    /\ \E e \in 1..Len(elems) :
          /\ elems[e].cls = "FabricJavaSource"
          /\ elems[e].properties.source_file = HookJava
          /\ ~TextTruthy(elems[e].properties.source)

\* A call that gives a numeric field a value below its range.
C16_OutOfRange(call) ==
    CASE call.category = "Item" ->
             \/ call.kw.max_count < 1
             \/ call.kw.durability # NoInt /\ call.kw.durability[1] < 1
      [] call.category = "Recipe" -> call.kw.count < 1 \/ call.kw.cooking_time < 1
      [] call.category = "Block" -> call.kw.luminance < 0
      [] OTHER -> FALSE

\* C16: constructing an element with a numeric field below its range (Item
\* max_count or durability < 1, Recipe count or cooking_time < 1, Block
\* luminance < 0) raises and makes no element.
C16_OutOfRangeRejected ==
    [][\A m \in 1..Len(mods), i \in 1..Len(ResourceCalls) :
          (/\ C16_OutOfRange(ResourceCalls[i])
           /\ ConstructFabric(m, ResourceCalls[i].category, ResourceCalls[i].kw))
          => ret'.exc # "none" /\ elems' = elems]_vars

\* The two sides compile can emit an entrypoint class for.
C17_Sides ==
    { [key |-> "client", entrypoint |-> <<"c","l","i","e","n","t">>, suffix |-> <<"C","l","i","e","n","t">>],
      [key |-> "server", entrypoint |-> <<"s","e","r","v","e","r">>, suffix |-> <<"S","e","r","v","e","r">>] }

\* <Main>Client.java (<Main>Server.java) is in the tree
C17_ClassWritten(mod, side) ==
    \E p \in DOMAIN files :
       /\ p.dir = "src/main/java/{ns}/{name}.java"
       /\ p.name = _camel(Chars(mod.mod_id)) \o <<"M","o","d">> \o side.suffix

\* fabric.mod.json lists that class under entrypoints.client (.server)
C17_Listed(mod, side) ==
    LET meta == files[File("src/main/resources/fabric.mod.json", <<>>, <<>>)]
    IN  /\ side.key \in DOMAIN meta.entrypoints
        /\ \E p \in DOMAIN files :
              /\ p.dir = "src/main/java/{ns}/{name}.java"
              /\ p.name = _camel(Chars(mod.mod_id)) \o <<"M","o","d">> \o side.suffix
              /\ meta.entrypoints[side.key] = <<p.ns \o <<".">> \o p.name>>

\* C17 as the spec states it: after a successful compile the entrypoint
\* class of a side is written and listed exactly when the Mod holds an added
\* JavaSource declared with that entrypoint.
C17_Original ==
    CompiledOk =>
        \A side \in C17_Sides :
           LET mod == mods[ret.object]
               sources == AddedOf(mod, "FabricJavaSource")
               declared_ == \E i \in 1..Len(sources) :
                               sources[i].properties.entrypoint = side.entrypoint
           IN  /\ declared_ <=> C17_ClassWritten(mod, side)
               /\ C17_ClassWritten(mod, side) <=> C17_Listed(mod, side)

\* C17: after a successful compile the entrypoint class of a side is written
\* and listed in fabric.mod.json exactly when the Mod holds an added
\* JavaSource declared with that entrypoint whose initialize method name is
\* not empty; the metadata names the class if and only if its file was
\* written.
C17_EntrypointOfHook ==
    CompiledOk =>
        \A side \in C17_Sides :
           LET mod == mods[ret.object]
               sources == AddedOf(mod, "FabricJavaSource")
               hooked == \E i \in 1..Len(sources) :
                            /\ sources[i].properties.entrypoint = side.entrypoint
                            /\ Truthy(sources[i].properties.initialize)
           IN  /\ hooked <=> C17_ClassWritten(mod, side)
               /\ C17_ClassWritten(mod, side) <=> C17_Listed(mod, side)

C17_Witness ==
    /\ CompiledOk
    /\ \E side \in C17_Sides :
          /\ side.key = "server"
          /\ C17_ClassWritten(mods[ret.object], side)
          /\ C17_Listed(mods[ret.object], side)
    /\ \E side \in C17_Sides :
          /\ side.key = "client"
          /\ ~C17_ClassWritten(mods[ret.object], side)
          /\ \E i \in 1..Len(mods[ret.object].elements) :
                elems[mods[ret.object].elements[i]].properties.entrypoint = <<"c","l","i","e","n","t">>

\* The added elements of a class whose texture names a file that does not
\* exist.
C18_Missing(mod, cls, kind) ==
    { [kind |-> kind, name |-> element.name, texture |-> element.properties.texture] :
         element \in { e \in Range(AddedOf(mod, cls)) :
                          /\ Truthy(e.properties.texture)
                          /\ ~IsFile(files, External(e.properties.texture)) } }

C18_MissingTextures(mod) ==
    C18_Missing(mod, "FabricItem", "item") \cup C18_Missing(mod, "FabricBlock", "block")

\* C18: compile returns the root when an added item or block names a
\* texture file that does not exist; for each such texture the tree holds
\* the marker <name>.missing.txt and the 'missing' list of
\* modpy_missing_assets.json holds the texture's path.
C18_MissingTextureRecorded ==
    ret.op = "compile" =>
        /\ ret.exc = "none"
        /\ \A x \in C18_MissingTextures(mods[ret.object]) :
              LET report == ResourceFile("assets/{ns}/modpy_missing_assets.json",
                                         Chars(mods[ret.object].mod_id), <<>>)
              IN  /\ IsFile(files, ResourceFile("assets/{ns}/textures/" \o x.kind
                                                   \o "/{name}.missing.txt",
                                                Chars(mods[ret.object].mod_id), x.name))
                  /\ IsFile(files, report)
                  /\ x.texture \in Range(files[report].missing)

-----------------------------------------------------------------------------
(* The event table of a fresh element.                                     *)

\* C24: immediately after construction, an element's event table has exactly
\* one entry per name of its category's EVENT_NAMES, each an empty list, and
\* no other key
C24_FreshEventTable ==
    (ret.op = "construct" /\ ret.exc = "none") =>
        LET e == elems[ret.object]
        IN  /\ DOMAIN e.events = Range(EVENT_NAMES(e.cls))
            /\ \A n \in DOMAIN e.events : e.events[n] = <<>>
            /\ DOMAIN to_dict(e).events = Range(EVENT_NAMES(e.cls))

-----------------------------------------------------------------------------
(* A handler that raises.                                                  *)

\* C28: when a handler raises during an event registration the exception
\* reaches the caller, no list is appended to any event of any element, and
\* what the handler recorded is dropped: the Mod's stack is the one saved at
\* entry, its startup_actions and every other Mod are as before; a
\* sendConsole made afterwards with no capture running is appended to
\* startup_actions.
C28_RaisedHandlerDiscarded ==
    [][/\ HandlerRaise
            => LET m == Owner(Top.element)
               IN  /\ ret'.op = "register_event" /\ ret'.exc = "HandlerError"
                   /\ elems' = elems
                   /\ mods'[m].startup_actions = mods[m].startup_actions
                   /\ mods'[m]._action_capture_stack = Top.saved
                   /\ \A o \in 1..Len(mods) : o # m => mods'[o] = mods[o]
       /\ \A m \in 1..Len(mods), c \in Commands :
             (ret.exc = "HandlerError" /\ Stack(m) = <<>> /\ SendConsole(m, c))
                 => /\ mods'[m].startup_actions =
                           Append(mods[m].startup_actions, ConsoleAction(c))
                    /\ elems' = elems]_vars

\* the only handler running has just raised: no capture is left and the
\* element it was registered on has no event list
C28_Witness ==
    /\ ret.op = "register_event"
    /\ ret.exc = "HandlerError"
    /\ frames = <<>>
    /\ \E e \in 1..Len(elems) : elems[e].events = NoEvents
    /\ \A m \in 1..Len(mods) : Stack(m) = <<>> /\ mods[m].startup_actions = <<>>

-----------------------------------------------------------------------------
(* _normalize_id_path (SpecNormalize).                                     *)

Separators == {"_", ".", "/", "-"}

\* a text of [a-z0-9/._-] with no two underscores in a row and no separator
\* at either end
WellFormedPath(s) ==
    /\ Range(s) \subseteq IdPathChars
    /\ \A i \in 1..(Len(s) - 1) : ~(s[i] = "_" /\ s[i + 1] = "_")
    /\ s # <<>> => (s[1] \notin Separators /\ s[Len(s)] \notin Separators)

\* C21: the result of _normalize_id_path has only characters of
\* [a-z0-9/._-], no two underscores in a row and no separator at either end;
\* it is the fallback when nothing of the input is left (the input has no
\* letter and no digit) and is not empty otherwise.
C21_NormalizedPathWellFormed ==
    ret.op = "_normalize_id_path" =>
        LET value == ret.args[1]
            fallback == ret.args[2]
            kept == IF value = None THEN {} ELSE Range(value) \cap Alnum
        IN  /\ WellFormedPath(ret.path)
            /\ kept = {} => ret.path = fallback
            /\ kept # {} => (ret.path # <<>> /\ Range(ret.path) \cap Alnum = {LowerChar(c) : c \in kept})

\* a text whose inner run of foreign characters and underscores became one
\* underscore
C21_Witness ==
    /\ ret.op = "_normalize_id_path"
    /\ ret.args[1] = <<"A", "!", "_", "b">>
    /\ ret.path = <<"a", "_", "b">>

-----------------------------------------------------------------------------
(* A compile that a missing Java source file ends (SpecJava).              *)

\* the last call was a compile that raised FileNotFoundError
C26_Failed == ret.op = "compile" /\ ret.exc = "FileNotFoundError"

\* the added JavaSource elements of the Mod that was compiled, in the order
\* they were added
C26_Sources == AddedOf(mods[ret.object], "FabricJavaSource")

\* the source at position i names a file that does not exist
C26_Lost(i) ==
    /\ Truthy(C26_Sources[i].properties.source_file)
    /\ ~IsFile(files, External(C26_Sources[i].properties.source_file))

\* the first source whose file does not exist
C26_FirstLost == CHOOSE i \in 1..Len(C26_Sources) : C26_Lost(i) /\ \A j \in 1..(i - 1) : ~C26_Lost(j)

\* the text of the source at position i, given inline or read from its file
C26_TextOf(i) ==
    LET props == C26_Sources[i].properties
    IN  IF Truthy(props.source_file) THEN files[External(props.source_file)].text
        ELSE props.source

\* C26 as stated: after a compile that a missing source_file ended with
\* FileNotFoundError no file of the new tree has been written and the old
\* tree is gone: the root does not exist.
C26_Original == C26_Failed => DOMAIN Tree(files) = {}

\* C26: a compile that a missing source_file ends with FileNotFoundError has
\* removed the tree that was at the root and has written the injected Java
\* sources added before the failing one, and nothing else: the root does not
\* exist afterwards only when the failing source is the first JavaSource added.
C26_FailedCompileLeavesEarlierSources ==
    C26_Failed =>
        /\ \E i \in 1..Len(C26_Sources) : C26_Lost(i)
        /\ StalePng \notin DOMAIN files
        /\ \A p \in DOMAIN Tree(files) :
              /\ p.dir = "src/main/java/{ns}/{name}.java"
              /\ \E i \in 1..(C26_FirstLost - 1) :
                    files[p] = [java_source |->
                                   [package_line |-> p.ns, source |-> C26_TextOf(i)]]
        /\ (DOMAIN Tree(files) = {}) <=> (C26_FirstLost = 1)

\* the root held the tree of an earlier compilation, and the failed compile
\* left the class of a source added before the one whose file is missing
C26_Witness ==
    /\ C26_Failed
    /\ ret.existed
    /\ File("src/main/java/{ns}/{name}.java",
            <<"m","o","d","p","y",".","g","e","n","e","r","a","t","e","d",".","e","x","a","m","p","l","e","m","o","d">>,
            <<"H","o","o","k">>) \in DOMAIN files

-----------------------------------------------------------------------------
(* The generator a Mod is bound to (SpecRebind).                           *)

\* C27: a Mod holds the generator instance that was registered under its key
\* when it was constructed; no later call changes it, a registration with
\* replace=True included, and the Mod's category lookups and compilations
\* are those of that instance.
C27_BoundGeneratorKept ==
    [][/\ \A m \in 1..Len(mods) : mods'[m]._generator = mods[m]._generator
       /\ (ret'.op = "Mod" /\ ret'.exc = "none" /\ Len(mods') > Len(mods))
             => mods'[Len(mods')]._generator = _GENERATORS[mods'[Len(mods')].generator]
       /\ \A m \in 1..Len(mods), c \in Categories, n \in NameInputs :
             (ret'.op = "construct" /\ Construct(m, c, n))
                 => (ret'.exc = "none" <=> c \in DOMAIN element_types(mods[m]._generator))
       /\ \A m \in 1..Len(mods) :
             (ret'.op = "compile" /\ ret'.object = m)
                 => /\ ret'.exc = "none"
                    /\ mods[m]._generator.cls = "NoItemGenerator"
                    /\ IsFile(files', File("demo-no-item-1.0.txt", <<>>, <<>>))
                    /\ Tree(files') = Tree(files)]_vars

\* a Mod has just compiled, or made an element, with the instance it was
\* constructed with, after another instance replaced that one under the key
C27_Witness ==
    /\ ret.op \in {"compile", "construct"}
    /\ ret.exc = "none"
    /\ \E m \in 1..Len(mods) :
          /\ ret.op = "compile" => ret.object = m
          /\ ret.op = "construct" => elems[ret.object].mod = m
          /\ mods[m]._generator = Demo1
          /\ _GENERATORS[DemoKey] = Demo2


-----------------------------------------------------------------------------
(* References between the elements of one Mod (SpecSymbols).               *)

\* the class of that name compile wrote into the tree
GeneratedClass(class_name) ==
    files[CHOOSE p \in DOMAIN Tree(files) :
             p.dir = "src/main/java/{ns}/{name}.java" /\ p.name = class_name]

\* the tabs the compiled Mod holds whose icon is a strict namespace:path literal
C22_LiteralTabs ==
    LET tabs == AddedOf(mods[ret.object], "FabricTab")
    IN  {i \in 1..Len(tabs) : /\ Truthy(tabs[i].properties.icon)
                              /\ _is_literal_identifier(tabs[i].properties.icon)}

\* C22: after a successful compile the icon of every tab whose icon value is
\* a strict namespace:path literal is the registry lookup of exactly that
\* namespace and path, whatever items, blocks or entities the Mod holds.
C22_LiteralIconVerbatim ==
    CompiledOk =>
        \A i \in C22_LiteralTabs :
           GeneratedClass(<<"G","e","n","e","r","a","t","e","d","I","t","e","m","G","r","o","u","p","s">>).tabs[i].icon
              = StackOfIdentifier(_split_namespaced_id(
                    AddedOf(mods[ret.object], "FabricTab")[i].properties.icon,
                    Chars(mods[ret.object].mod_id)))


\* the names that an item and a block of the compiled Mod share
C25_SharedNames ==
    Names(AddedOf(mods[ret.object], "FabricItem"))
        \cap Names(AddedOf(mods[ret.object], "FabricBlock"))

\* the file of a tag
C25_TagFile(tag) ==
    ResourceFile("data/{ns}/tags/"
                     \o (IF tag.properties.registry = <<"i","t","e","m">> THEN "items" ELSE "blocks")
                     \o "/{name}.json",
                 tag.properties.namespace, tag.properties.identifier)

C29_DistinctConstants(declarations) ==
    \A i, j \in 1..Len(declarations) :
       declarations[i].name # declarations[j].name
          => declarations[i].const # declarations[j].const

\* C29: after a successful compile the added items, the added blocks, the
\* added tabs and the added entities of distinct names have distinct
\* constants in GeneratedItems, GeneratedBlocks, GeneratedItemGroups and
\* GeneratedEntities, and entities of distinct names have distinct classes.
C29_DistinctSymbols ==
    CompiledOk =>
        /\ C29_DistinctConstants(GeneratedClass(<<"G","e","n","e","r","a","t","e","d","I","t","e","m","s">>).items)
        /\ C29_DistinctConstants(GeneratedClass(<<"G","e","n","e","r","a","t","e","d","B","l","o","c","k","s">>).blocks)
        /\ C29_DistinctConstants(GeneratedClass(<<"G","e","n","e","r","a","t","e","d","I","t","e","m","G","r","o","u","p","s">>).tabs)
        /\ C29_DistinctConstants(GeneratedClass(<<"G","e","n","e","r","a","t","e","d","E","n","t","i","t","i","e","s">>).entities)
        /\ \A e1, e2 \in Range(AddedOf(mods[ret.object], "FabricEntity")) :
              e1.name # e2.name => EntityClass(e1.name) # EntityClass(e2.name)


\* the model file compile writes for an added item
C30_ItemModelFile(item) ==
    ResourceFile("assets/{ns}/models/item/{name}.json", Chars(mods[ret.object].mod_id), item.name)

\* what the turn of an item writes as its model: the model file the item
\* names, else the generated model with the texture of the item
C30_ItemModel(item) ==
    LET copy == _copy_file_if_exists(files, item.properties.model, C30_ItemModelFile(item))
    IN  IF copy.copied THEN copy.fs[C30_ItemModelFile(item)]
        ELSE [parent |-> <<"m","i","n","e","c","r","a","f","t",":","i","t","e","m","/","g","e","n","e","r","a","t","e","d">>,
              texture |-> Chars(mods[ret.object].mod_id) \o <<":","i","t","e","m","/">> \o item.name]

\* the text of an added JavaSource and the class it is written as
C30_Text(source) ==
    IF Truthy(source.properties.source_file)
    THEN files[External(source.properties.source_file)].text
    ELSE source.properties.source

C30_ClassName(source) ==
    OrElse(source.properties.class_name,
           OrElse(_extract_class_name(C30_Text(source)),
                  <<"I","n","j","e","c","t","e","d","C","l","a","s","s">>))

\* C30: after a successful compile no file written for one element has been
\* overwritten by what another element or artifact wrote to the same path:
\* the models/item/<name>.json of every added item holds the model written
\* for the item, and the class file of every added JavaSource holds the
\* source of that JavaSource.
C30_NoPathWrittenTwice ==
    CompiledOk =>
        /\ \A item \in Range(AddedOf(mods[ret.object], "FabricItem")) :
              files[C30_ItemModelFile(item)] = C30_ItemModel(item)
        /\ \A source \in Range(AddedOf(mods[ret.object], "FabricJavaSource")) :
              \E p \in DOMAIN Tree(files) :
                 /\ p.dir = "src/main/java/{ns}/{name}.java"
                 /\ p.name = C30_ClassName(source)
                 /\ DOMAIN files[p] = {"java_source"}
                 /\ files[p].java_source.source = C30_Text(source)


-----------------------------------------------------------------------------
(* The events of an element (SpecEvents).                                  *)

\* The scripts add one element named Foo of a category that has events and
\* register handlers for its two events; every handler has returned.  The
\* first event gets at most MaxHandlers handlers, which send at most MaxSent
\* commands in all; a command may be the empty string.
MaxSent == 3
MaxHandlers == 2
SentCommands == {"ping", "pong", ""}

\* the action lists a handler that sends at most k commands can leave
CapturedLists(k) ==
    UNION { [1..n -> {[type |-> "console", command |-> c] : c \in SentCommands}] : n \in 0..k }

\* the lists at most h handlers leave that send at most k commands in all
RECURSIVE HandlerLists(_, _)
HandlerLists(h, k) ==
    IF h = 0 THEN {<<>>}
    ELSE {<<>>} \cup UNION { { <<l>> \o rest : rest \in HandlerLists(h - 1, k - Len(l)) } :
                               l \in CapturedLists(k) }

EventCategories ==
    { [category |-> "Item", kw |-> [FabricItemDefaults EXCEPT !.name = Foo]],
      [category |-> "Block", kw |-> [FabricBlockDefaults EXCEPT !.name = Foo]],
      [category |-> "Entity", kw |-> [FabricEntityDefaults EXCEPT !.name = Foo]] }

\* @element.Event.<name> applied to one handler after the other
RECURSIVE Registered(_, _, _)
Registered(events, name, lists) ==
    IF lists = <<>> THEN events
    ELSE Registered(events_append(events, name, lists[1]), name, Tail(lists))

InitEvents ==
    /\ _GENERATORS = register_generator(<<>>, Fabric1, TRUE).generators
    /\ frames = <<>>
    /\ files = InputFiles
    /\ \E call \in EventCategories :
       \E first \in HandlerLists(MaxHandlers, MaxSent) :
       \E second \in {<<>>, << <<[type |-> "console", command |-> "pong"]>> >>} :
          LET mod == Mod__init__(_GENERATORS, "tester", FabricKey, "examplemod",
                                 "Example Mod", "0.1.0").value
              cls == Mod__getattr__(mod, call.category).value
              element == FabricConstructor(cls, 1, mod, call.kw).value
          IN  /\ elems = <<[element EXCEPT !.events =
                               Registered(Registered(element.events, EVENT_NAMES(cls)[1], first),
                                          EVENT_NAMES(cls)[2], second)]>>
              /\ declared = <<[category |-> call.category, name |-> call.kw.name]>>
              /\ mods = <<[mod EXCEPT !.elements = <<1>>]>>
              /\ ret = IF first = <<>> /\ second = <<>>
                       THEN [Call("add", "none") EXCEPT !.object = 1]
                       ELSE Call("register_event", "none")

\* the script compiles
NextEvents == \E m \in 1..Len(mods) : Compile(m)

SpecEvents == InitEvents /\ [][NextEvents]_vars

\* the commands of a captured list, and those of them that are not empty
C23_Captured(actions) == [i \in 1..Len(actions) |-> actions[i].command]

C23_Sent(actions) == SelectSeq(C23_Captured(actions), LAMBDA c : c # "")

\* the captured lists of an event slot of an element
C23_Slot(element, event) ==
    IF event \in DOMAIN element.events THEN element.events[event] ELSE <<>>

\* the registrations of GeneratedEvents for an event of an element
C23_Emitted(element, event) ==
    SelectSeq(GeneratedClass(<<"G","e","n","e","r","a","t","e","d","E","v","e","n","t","s">>).handlers,
              LAMBDA h : h.event = event /\ h.const = _java_const(element.name))

\* the added items, blocks and entities of the compiled Mod
C23_Elements ==
    Range(AddedOf(mods[ret.object], "FabricItem"))
        \cup Range(AddedOf(mods[ret.object], "FabricBlock"))
        \cup Range(AddedOf(mods[ret.object], "FabricEntity"))

\* C23 as stated: after a successful compile every event slot of an added
\* item, block or entity that holds a non-empty captured list has a
\* registration in GeneratedEvents that executes the captured commands of such
\* a list in recorded order, and a slot with no actions has none.
C23_Original ==
    CompiledOk =>
        \A element \in C23_Elements : \A event \in Range(EVENT_NAMES(element.cls)) :
           LET slot == C23_Slot(element, event)
               emitted == C23_Emitted(element, event)
           IN  /\ (\E l \in 1..Len(slot) : slot[l] # <<>>)
                     => \E h \in 1..Len(emitted) : \E l \in 1..Len(slot) :
                           /\ slot[l] # <<>>
                           /\ emitted[h].commands = C23_Captured(slot[l])
               /\ (\A l \in 1..Len(slot) : slot[l] = <<>>) => emitted = <<>>

\* C23: after a successful compile the registrations of GeneratedEvents for
\* an event slot of an added item, block or entity are, in recorded order,
\* one for each captured list of the slot that holds a command that is not
\* empty, executing the non-empty commands of that list in recorded order;
\* lists without such a command and slots with no actions emit nothing.
C23_RegistrationPerSendingHandler ==
    CompiledOk =>
        \A element \in C23_Elements : \A event \in Range(EVENT_NAMES(element.cls)) :
           LET sending == SelectSeq(C23_Slot(element, event), LAMBDA l : C23_Sent(l) # <<>>)
               emitted == C23_Emitted(element, event)
           IN  /\ Len(emitted) = Len(sending)
               /\ \A h \in 1..Len(emitted) : emitted[h].commands = C23_Sent(sending[h])

\* an element was compiled whose first event holds a handler that sent only
\* the empty command and a handler that sent ping and then pong: the one
\* registration of the event executes ping, pong
C23_Witness ==
    /\ CompiledOk
    /\ \E element \in C23_Elements :
          /\ element.cls = "FabricEntity"
          /\ C23_Slot(element, "Spawn")
                = << <<[type |-> "console", command |-> ""]>>,
                     <<[type |-> "console", command |-> "ping"],
                       [type |-> "console", command |-> "pong"]>> >>
          /\ Len(C23_Emitted(element, "Spawn")) = 1
          /\ C23_Emitted(element, "Spawn")[1].commands = <<"ping", "pong">>
          /\ Len(C23_Emitted(element, "Death")) = 1

====
